---- MODULE Spec2Model ----
(***************************************************************************)
(* Palette matching and uniform sprite transforms of the piskel command    *)
(* line tools and of the editor's PaletteMatchingService.                  *)
(*                                                                         *)
(* Nine specifications share this module:                                   *)
(*   SpecMatch      the four palette matchers, one pixel per step          *)
(*   SpecTransform  transformPiskel, one phase per step                    *)
(*   SpecPixelOps   findContentBounds, cropPng and resizePng on one buffer *)
(*   SpecLoad       loadPalette of palette-match on one palette file       *)
(*   SpecExport     exportPiskel of piskel-to-png on one container         *)
(*   SpecBatch      the main function of each command line tool            *)
(*   SpecDecode     the three tile decoders on one chunk                   *)
(*   SpecNearest    the nearest-colour searches on one colour              *)
(*   SpecPipeline   processPng of sprite-pipeline on one image             *)
(***************************************************************************)
EXTENDS Integers, Sequences, FiniteSets, TLC

VARIABLES
    tool,       \* which matcher runs: "match", "pipeline", "import", "editor"
    palette,    \* loaded colour list (CLI) or palette.getColors() as 0xRRGGBB (editor)
    bufs,       \* working pixel buffers: chunks of a file, or frames of a layer
    orig,       \* the buffers as they were before the first pass
    matched,    \* the buffers as the first pass left them
    bi,         \* index of the buffer being matched
    pix,        \* index of the pixel being matched (the loop variable i)
    cache,      \* colorCache
    modified,   \* the modified flag of the current buffer
    versions,   \* frame.version of each editor frame
    pass,       \* 1 for the first run, 2 for the re-run on the output
    pc,         \* "start", "match", "done", "failed", "idle"
    err,        \* the error a failed run ended with
    data,       \* the parsed container of transformPiskel
    input,      \* the container as read from the input file
    options,    \* the transform options
    cropBounds, \* global crop rectangle, or NoBounds
    newWidth,   \* resolved target width
    newHeight,  \* resolved target height
    li,         \* index of the layer being transformed
    written,    \* the container written to the output file, or NoFile
    tpc,        \* "read", "crop", "resolve", "layers", "done", "failed", "idle"
    ptool,      \* whose pixel functions run: "transform" or "pipeline"
    psrc,       \* the buffer the pixel functions are applied to
    ptarget,    \* <<newWidth, newHeight>> of the resize
    pbounds,    \* what findContentBounds returned, or NoBounds
    pcropped,   \* what cropPng returned, or NoFile
    presized,   \* what resizePng returned, or NoFile
    ppc,        \* "bounds", "crop", "resize", "done", "idle"
    lfile,      \* the palette file: its extension and its content
    loaded,     \* the colour list loadPalette returned, or NoFile
    lerr,       \* the error loadPalette threw
    lpc,        \* "start", "done", "failed", "idle"
    edata,      \* the container exportPiskel reads
    eoptions,   \* frame, columns and scale of the export
    eframes,    \* the sparse array extractFrames returned
    outputPng,  \* the image selected for output, or NoFile
    ewritten,   \* the PNG written to the output file, or NoFile
    eerr,       \* the error exportPiskel threw
    epc,        \* "read", "select", "scale", "write", "done", "failed", "idle"
    btool,      \* the tool whose main runs
    args,       \* the parsed command line, files apart
    files,      \* args.files: what each named file is
    fi,         \* index of the file the loop is at
    processed,  \* counter of the files that succeeded
    failed,     \* counter of the files that failed
    log,        \* <<file index, outcome>> of every loop iteration so far
    reads,      \* indices of the input files opened for reading
    writes,     \* indices of the input files whose output was written
    bpc,        \* "start", "loop", "done", "exit", "crashed", "idle"
    dsheet,     \* width and height of the chunk's decoded sheet
    dframe,     \* <<frameWidth, frameHeight>> the container declares
    dslots,     \* chunk.layout.length
    dreads,     \* per decoder that ran: the sheet pixel read for <<slot, x, y>>
    ncolor,     \* <<r, g, b>> of the pixel to match
    npal,       \* the palette, as <<r, g, b>> entries
    nchosen,    \* per search that ran: the palette colour it selected
    simage,     \* the PNG processPng reads
    soptions,   \* palette, crop and size of the pipeline
    spng,       \* the variable png of processPng
    swritten,   \* the image of the container written, or NoFile
    spc         \* "read", "palette", "crop", "resize", "write", "done", "failed", "idle"

matchVars == <<tool, palette, bufs, orig, matched, bi, pix, cache, modified,
               versions, pass, pc, err>>
transformVars == <<data, input, options, cropBounds, newWidth, newHeight, li,
                   written, tpc>>
pixelVars == <<ptool, psrc, ptarget, pbounds, pcropped, presized, ppc>>
loadVars == <<lfile, loaded, lerr, lpc>>
exportVars == <<edata, eoptions, eframes, outputPng, ewritten, eerr, epc>>
batchVars == <<btool, args, files, fi, processed, failed, log, reads, writes, bpc>>
decodeVars == <<dsheet, dframe, dslots, dreads>>
nearestVars == <<ncolor, npal, nchosen>>
pipelineVars == <<simage, soptions, spng, swritten, spc>>
vars == <<tool, palette, bufs, orig, matched, bi, pix, cache, modified,
          versions, pass, pc, err, data, input, options, cropBounds,
          newWidth, newHeight, li, written, tpc,
          ptool, psrc, ptarget, pbounds, pcropped, presized, ppc,
          lfile, loaded, lerr, lpc,
          edata, eoptions, eframes, outputPng, ewritten, eerr, epc,
          btool, args, files, fi, processed, failed, log, reads, writes, bpc,
          dsheet, dframe, dslots, dreads, ncolor, npal, nchosen,
          simage, soptions, spng, swritten, spc>>

----------------------------------------------------------------------------
(* Bounds *)

MaxPaletteLen == 2
MaxPixels == 2
MaxBuffers == 2
MaxLayers == 2
MaxChunks == 2
MaxFrames == 2

----------------------------------------------------------------------------
(* Input domains *)

\* Colour lines a palette file can hold.  A .gpl line "300 0 0" is accepted
\* by the loader's \d+ pattern, so a loaded channel need not be a byte.
PaletteColors ==
    { <<255, 0, 0>>, <<0, 0, 255>>, <<1, 0, 255>>, <<0, 0, 0>>, <<300, 0, 0>> }

ByteColors == { c \in PaletteColors : c[1] < 256 /\ c[2] < 256 /\ c[3] < 256 }

\* RGBA pixels of the input images.
Pixels ==
    { <<200, 10, 10, 255>>, <<200, 10, 10, 0>>, <<0, 0, 0, 255>>,
      <<128, 0, 128, 128>> }

SeqsUpTo(S, n) == UNION { [1..k -> S] : k \in 0..n }

NonEmptySeqsUpTo(S, n) == UNION { [1..k -> S] : k \in 1..n }

\* One image of up to MaxPixels pixels, or up to MaxBuffers one-pixel images.
BufferLists(P) ==
    { <<b>> : b \in NonEmptySeqsUpTo(P, MaxPixels) }
    \cup { [k \in 1..n |-> <<f[k]>>] : n \in 2..MaxBuffers, f \in [1..MaxBuffers -> P] }

----------------------------------------------------------------------------
(* JavaScript values *)

Undefined == <<>>

Infinity == -1

\* x >> n for the non-negative 32-bit values that occur here
Shr(x, n) == x \div (2 ^ n)

\* storing a number into a Buffer / Uint8Array element
ToUint8(v) == v % 256

EmptyCache == [k \in {} |-> Undefined]

CacheSet(c, key, val) ==
    [k \in (DOMAIN c) \cup {key} |-> IF k = key THEN val ELSE c[k]]

----------------------------------------------------------------------------
(* Palette loading *)

\* One line of a .gpl file: a comment/header line or "r g b name".
GplLines == { [kind |-> "comment"] } \cup
            { [kind |-> "color", r |-> c[1], g |-> c[2], b |-> c[3]] : c \in PaletteColors }

RECURSIVE parseGplPalette(_)
parseGplPalette(lines) ==
    IF lines = <<>> THEN <<>>
    ELSE LET line == Head(lines)
             rest == parseGplPalette(Tail(lines))
         IN IF line.kind = "comment" THEN rest
            ELSE <<(<<line.r, line.g, line.b>>)>> \o rest

GplFiles ==
    UNION { [1..k -> { l \in GplLines : l.kind = "color" }] : k \in 0..MaxPaletteLen }
    \cup { <<[kind |-> "comment"]>> }

LoadedPalettes == { parseGplPalette(f) : f \in GplFiles }

\* palette.getColors() of the editor: hex strings, kept as their 0xRRGGBB value
HexOf(c) == c[1] * 65536 + c[2] * 256 + c[3]

EditorPalettes == SeqsUpTo({ HexOf(c) : c \in ByteColors }, MaxPaletteLen)

buildPaletteData_(colors) ==
    [k \in 1..Len(colors) |->
        << Shr(colors[k], 16) % 256, Shr(colors[k], 8) % 256, colors[k] % 256 >>]

----------------------------------------------------------------------------
(* Colour distance and nearest-colour search *)

colorDistance(r1, g1, b1, r2, g2, b2) ==
    LET rMean == Shr(r1 + r2, 1)
        dr == r1 - r2
        dg == g1 - g2
        db == b1 - b2
    IN Shr((512 + rMean) * dr * dr, 8) + 4 * dg * dg + Shr((767 - rMean) * db * db, 8)

\* mutant: <= lets a later entry of equal distance replace the first one
RECURSIVE NearestScanLastWins(_, _, _, _, _, _, _)
NearestScanLastWins(r, g, b, pal, k, minDist, nearest) ==
    IF k > Len(pal) THEN nearest
    ELSE LET color == pal[k]
             dist == colorDistance(r, g, b, color[1], color[2], color[3])
         IN IF minDist = Infinity \/ dist <= minDist
            THEN IF dist = 0 THEN color
                 ELSE NearestScanLastWins(r, g, b, pal, k + 1, dist, color)
            ELSE NearestScanLastWins(r, g, b, pal, k + 1, minDist, nearest)

\* the scan loop: for (const color of palette) { ... if (dist < minDist) ... }
RECURSIVE NearestScan(_, _, _, _, _, _, _)
NearestScan(r, g, b, pal, k, minDist, nearest) ==
    IF k > Len(pal) THEN nearest
    ELSE LET color == pal[k]
             dist == colorDistance(r, g, b, color[1], color[2], color[3])
         IN IF minDist = Infinity \/ dist < minDist
            THEN IF dist = 0 THEN color
                 ELSE NearestScan(r, g, b, pal, k + 1, dist, color)
            ELSE NearestScan(r, g, b, pal, k + 1, minDist, nearest)

\* mutant: an empty palette yields black instead of undefined
findNearestColorOrBlack(r, g, b, pal) ==
    IF Len(pal) = 0 THEN <<0, 0, 0>>
    ELSE NearestScan(r, g, b, pal, 1, Infinity, pal[1])

\* palette-match: nearest = palette[0], undefined for an empty palette
findNearestColor(r, g, b, pal) ==
    NearestScan(r, g, b, pal, 1, Infinity,
                IF Len(pal) = 0 THEN Undefined ELSE pal[1])

\* png-to-piskel: the same function, duplicated in that tool
findNearestColorImport(r, g, b, pal) ==
    NearestScan(r, g, b, pal, 1, Infinity,
                IF Len(pal) = 0 THEN Undefined ELSE pal[1])

\* sprite-pipeline: inline scan, nearest starts as the cache miss (undefined)
applyPaletteNearest(r, g, b, pal) ==
    NearestScan(r, g, b, pal, 1, Infinity, Undefined)

\* editor: inline scan over paletteData, nearestR/G/B start at paletteData[0]
matchFrameNearest(r, g, b, paletteData) ==
    NearestScan(r, g, b, paletteData, 1, Infinity, paletteData[1])

----------------------------------------------------------------------------
(* One loop iteration of each matcher.  The result names the pixel left in *)
(* the buffer, the cache, whether the iteration threw and whether it set   *)
(* the modified flag.                                                      *)

\* mutant: the key is the green byte alone
RgbKeyGreenOnly(r, g, b) == g

\* (r << 16) | (g << 8) | b
RgbKey(r, g, b) == r * 65536 + g * 256 + b

Step(px, c, threw, mod) == [px |-> px, cache |-> c, threw |-> threw, modified |-> mod]

\* mutant: the alpha === 0 test is missing
matchPngPixelNoSkip(px, pal, c) ==
    LET r == px[1]
        g == px[2]
        b == px[3]
        key == RgbKey(r, g, b)
        hit == key \in DOMAIN c
        nearest == IF hit THEN c[key] ELSE findNearestColor(r, g, b, pal)
        c2 == IF hit THEN c ELSE CacheSet(c, key, nearest)
    IN IF nearest = Undefined THEN Step(px, c2, TRUE, FALSE)
       ELSE IF r # nearest[1] \/ g # nearest[2] \/ b # nearest[3]
            THEN Step(<<ToUint8(nearest[1]), ToUint8(nearest[2]), ToUint8(nearest[3]), px[4]>>,
                      c2, FALSE, TRUE)
            ELSE Step(px, c2, FALSE, FALSE)

\* palette-match, body of the loop of matchPngToPalette
matchPngPixel(px, pal, c) ==
    IF px[4] = 0 THEN Step(px, c, FALSE, FALSE)
    ELSE LET r == px[1]
             g == px[2]
             b == px[3]
             key == RgbKey(r, g, b)
             hit == key \in DOMAIN c
             nearest == IF hit THEN c[key] ELSE findNearestColor(r, g, b, pal)
             c2 == IF hit THEN c ELSE CacheSet(c, key, nearest)
         IN IF nearest = Undefined THEN Step(px, c2, TRUE, FALSE)
            ELSE IF r # nearest[1] \/ g # nearest[2] \/ b # nearest[3]
                 THEN Step(<<ToUint8(nearest[1]), ToUint8(nearest[2]), ToUint8(nearest[3]), px[4]>>,
                           c2, FALSE, TRUE)
                 ELSE Step(px, c2, FALSE, FALSE)

\* sprite-pipeline, body of the loop of applyPalette
applyPalettePixel(px, pal, c) ==
    IF px[4] = 0 THEN Step(px, c, FALSE, FALSE)
    ELSE LET r == px[1]
             g == px[2]
             b == px[3]
             key == RgbKey(r, g, b)
             got == IF key \in DOMAIN c THEN c[key] ELSE Undefined
             nearest == IF got = Undefined THEN applyPaletteNearest(r, g, b, pal) ELSE got
             c2 == IF got = Undefined THEN CacheSet(c, key, nearest) ELSE c
         IN IF nearest = Undefined THEN Step(px, c2, TRUE, FALSE)
            ELSE Step(<<ToUint8(nearest[1]), ToUint8(nearest[2]), ToUint8(nearest[3]), px[4]>>,
                      c2, FALSE, FALSE)

\* png-to-piskel, body of the loop of applyPaletteToImageData
applyPaletteToImageDataPixel(px, pal, c) ==
    IF px[4] = 0 THEN Step(px, c, FALSE, FALSE)
    ELSE LET r == px[1]
             g == px[2]
             b == px[3]
             key == RgbKey(r, g, b)
             hit == key \in DOMAIN c
             nearest == IF hit THEN c[key] ELSE findNearestColorImport(r, g, b, pal)
             c2 == IF hit THEN c ELSE CacheSet(c, key, nearest)
         IN IF nearest = Undefined THEN Step(px, c2, TRUE, FALSE)
            ELSE Step(<<ToUint8(nearest[1]), ToUint8(nearest[2]), ToUint8(nearest[3]), px[4]>>,
                      c2, FALSE, FALSE)

\* An editor pixel is a Uint32 0xAABBGGRR, kept as its two 16-bit halves
\* <<0xAABB, 0xGGRR>>.
ColorInt(px) == << px[4] * 256 + px[3], px[2] * 256 + px[1] >>

ColorIntAlpha(ci) == (ci[1] \div 256) % 256

ColorIntRgba(ci) == << ci[2] % 256, (ci[2] \div 256) % 256, ci[1] % 256, ColorIntAlpha(ci) >>

\* editor, body of the loop of matchFrameToPalette_
matchFramePixel(colorInt, paletteData, c) ==
    LET alpha == ColorIntAlpha(colorInt)
    IN IF alpha = 0 THEN Step(colorInt, c, FALSE, FALSE)
       ELSE IF colorInt \in DOMAIN c
            THEN Step(c[colorInt], c, FALSE, colorInt # c[colorInt])
            ELSE LET r == colorInt[2] % 256
                     g == (colorInt[2] \div 256) % 256
                     b == colorInt[1] % 256
                     nearest == matchFrameNearest(r, g, b, paletteData)
                     newColorInt == << alpha * 256 + nearest[3], nearest[2] * 256 + nearest[1] >>
                 IN Step(newColorInt, CacheSet(c, colorInt, newColorInt), FALSE,
                         colorInt # newColorInt)

----------------------------------------------------------------------------
(* Values of the transform variables while a matcher runs, and of the      *)
(* matcher variables while a transform runs.                               *)

NoFile == [kind |-> "none"]

NoBounds == [kind |-> "null"]

TransformIdle ==
    /\ data = NoFile
    /\ input = NoFile
    /\ options = NoFile
    /\ cropBounds = NoBounds
    /\ newWidth = 0
    /\ newHeight = 0
    /\ li = 0
    /\ written = NoFile
    /\ tpc = "idle"

PixelIdle ==
    /\ ptool = "none"
    /\ psrc = NoFile
    /\ ptarget = <<0, 0>>
    /\ pbounds = NoBounds
    /\ pcropped = NoFile
    /\ presized = NoFile
    /\ ppc = "idle"

LoadIdle ==
    /\ lfile = NoFile
    /\ loaded = NoFile
    /\ lerr = "none"
    /\ lpc = "idle"

ExportIdle ==
    /\ edata = NoFile
    /\ eoptions = NoFile
    /\ eframes = <<>>
    /\ outputPng = NoFile
    /\ ewritten = NoFile
    /\ eerr = "none"
    /\ epc = "idle"

BatchIdle ==
    /\ btool = "none"
    /\ args = NoFile
    /\ files = <<>>
    /\ fi = 0
    /\ processed = 0
    /\ failed = 0
    /\ log = <<>>
    /\ reads = {}
    /\ writes = {}
    /\ bpc = "idle"

DecodeIdle ==
    /\ dsheet = NoFile
    /\ dframe = <<0, 0>>
    /\ dslots = 0
    /\ dreads = <<>>

NearestIdle ==
    /\ ncolor = <<>>
    /\ npal = <<>>
    /\ nchosen = <<>>

PipelineIdle ==
    /\ simage = NoFile
    /\ soptions = NoFile
    /\ spng = NoFile
    /\ swritten = NoFile
    /\ spc = "idle"

----------------------------------------------------------------------------
(* SpecMatch *)

InitMatch ==
    /\ tool \in {"match", "pipeline", "import", "editor"}
    /\ palette \in IF tool = "editor" THEN EditorPalettes ELSE LoadedPalettes
    /\ bufs \in IF tool = "editor"
                THEN { [k \in 1..Len(bl) |-> [j \in 1..Len(bl[k]) |-> ColorInt(bl[k][j])]] :
                         bl \in BufferLists(Pixels) }
                ELSE IF tool = "match" THEN BufferLists(Pixels)
                ELSE { <<b>> : b \in NonEmptySeqsUpTo(Pixels, MaxPixels) }
    /\ orig = bufs
    /\ matched = <<>>
    /\ bi = 1
    /\ pix = 1
    /\ cache = EmptyCache
    /\ modified = FALSE
    /\ versions = [k \in 1..Len(bufs) |-> 0]
    /\ pass = 1
    /\ pc = "start"
    /\ err = "none"
    /\ TransformIdle /\ PixelIdle /\ LoadIdle /\ ExportIdle /\ BatchIdle /\ DecodeIdle /\ NearestIdle /\ PipelineIdle

\* processPiskelFile: read the file, create the cache shared by its chunks
processPiskelFileStart ==
    /\ pc = "start" /\ tool = "match"
    /\ pc' = "match"
    /\ cache' = EmptyCache
    /\ bi' = 1 /\ pix' = 1 /\ modified' = FALSE
    /\ UNCHANGED <<tool, palette, bufs, orig, matched, versions, pass, err>>
    /\ UNCHANGED <<transformVars, pixelVars, loadVars, exportVars, batchVars, decodeVars, nearestVars, pipelineVars>>

\* matchPngToPalette: one iteration of the pixel loop
matchPngToPaletteStep ==
    /\ pc = "match" /\ tool = "match"
    /\ bi <= Len(bufs) /\ pix <= Len(bufs[bi])
    /\ LET s == matchPngPixel(bufs[bi][pix], palette, cache)
       IN /\ cache' = s.cache
          /\ bufs' = [bufs EXCEPT ![bi][pix] = s.px]
          /\ modified' = (modified \/ s.modified)
          /\ IF s.threw
             THEN pc' = "failed" /\ err' = "TypeError" /\ pix' = pix
             ELSE pc' = pc /\ err' = err /\ pix' = pix + 1
    /\ UNCHANGED <<tool, palette, orig, matched, bi, versions, pass>>
    /\ UNCHANGED <<transformVars, pixelVars, loadVars, exportVars, batchVars, decodeVars, nearestVars, pipelineVars>>

\* matchPngToPalette returns (re-encoded when modified); next chunk
matchPngToPaletteReturn ==
    /\ pc = "match" /\ tool = "match"
    /\ bi <= Len(bufs) /\ pix > Len(bufs[bi])
    /\ bi' = bi + 1 /\ pix' = 1 /\ modified' = FALSE
    /\ UNCHANGED <<tool, palette, bufs, orig, matched, cache, versions, pass, pc, err>>
    /\ UNCHANGED <<transformVars, pixelVars, loadVars, exportVars, batchVars, decodeVars, nearestVars, pipelineVars>>

\* processPiskelFile: all chunks matched, the file is written
processPiskelFileWrite ==
    /\ pc = "match" /\ tool = "match"
    /\ bi > Len(bufs)
    /\ pc' = "done"
    /\ UNCHANGED <<tool, palette, bufs, orig, matched, bi, pix, cache, modified,
                   versions, pass, err>>
    /\ UNCHANGED <<transformVars, pixelVars, loadVars, exportVars, batchVars, decodeVars, nearestVars, pipelineVars>>

\* applyPalette / applyPaletteToImageData are entered: const cache = new Map()
applyPaletteStart ==
    /\ pc = "start" /\ tool \in {"pipeline", "import"}
    /\ pc' = "match"
    /\ cache' = EmptyCache
    /\ bi' = 1 /\ pix' = 1 /\ modified' = FALSE
    /\ UNCHANGED <<tool, palette, bufs, orig, matched, versions, pass, err>>
    /\ UNCHANGED <<transformVars, pixelVars, loadVars, exportVars, batchVars, decodeVars, nearestVars, pipelineVars>>

\* applyPalette: one iteration of the pixel loop
applyPaletteStep ==
    /\ pc = "match" /\ tool = "pipeline"
    /\ pix <= Len(bufs[1])
    /\ LET s == applyPalettePixel(bufs[1][pix], palette, cache)
       IN /\ cache' = s.cache
          /\ bufs' = [bufs EXCEPT ![1][pix] = s.px]
          /\ IF s.threw
             THEN pc' = "failed" /\ err' = "TypeError" /\ pix' = pix
             ELSE pc' = pc /\ err' = err /\ pix' = pix + 1
    /\ UNCHANGED <<tool, palette, orig, matched, bi, modified, versions, pass>>
    /\ UNCHANGED <<transformVars, pixelVars, loadVars, exportVars, batchVars, decodeVars, nearestVars, pipelineVars>>

\* applyPaletteToImageData: one iteration of the pixel loop
applyPaletteToImageDataStep ==
    /\ pc = "match" /\ tool = "import"
    /\ pix <= Len(bufs[1])
    /\ LET s == applyPaletteToImageDataPixel(bufs[1][pix], palette, cache)
       IN /\ cache' = s.cache
          /\ bufs' = [bufs EXCEPT ![1][pix] = s.px]
          /\ IF s.threw
             THEN pc' = "failed" /\ err' = "TypeError" /\ pix' = pix
             ELSE pc' = pc /\ err' = err /\ pix' = pix + 1
    /\ UNCHANGED <<tool, palette, orig, matched, bi, modified, versions, pass>>
    /\ UNCHANGED <<transformVars, pixelVars, loadVars, exportVars, batchVars, decodeVars, nearestVars, pipelineVars>>

\* applyPalette / applyPaletteToImageData return
applyPaletteReturn ==
    /\ pc = "match" /\ tool \in {"pipeline", "import"}
    /\ pix > Len(bufs[1])
    /\ pc' = "done"
    /\ UNCHANGED <<tool, palette, bufs, orig, matched, bi, pix, cache, modified,
                   versions, pass, err>>
    /\ UNCHANGED <<transformVars, pixelVars, loadVars, exportVars, batchVars, decodeVars, nearestVars, pipelineVars>>

\* matchToPalette: returns at once on an empty palette, else sets up the cache
matchToPaletteStart ==
    /\ pc = "start" /\ tool = "editor"
    /\ pc' = IF Len(palette) = 0 THEN "done" ELSE "match"
    /\ cache' = EmptyCache
    /\ bi' = 1 /\ pix' = 1 /\ modified' = FALSE
    /\ UNCHANGED <<tool, palette, bufs, orig, matched, versions, pass, err>>
    /\ UNCHANGED <<transformVars, pixelVars, loadVars, exportVars, batchVars, decodeVars, nearestVars, pipelineVars>>

\* matchFrameToPalette_: one iteration of the pixel loop
matchFrameToPaletteStep ==
    /\ pc = "match" /\ tool = "editor"
    /\ bi <= Len(bufs) /\ pix <= Len(bufs[bi])
    /\ LET s == matchFramePixel(bufs[bi][pix], buildPaletteData_(palette), cache)
       IN /\ cache' = s.cache
          /\ bufs' = [bufs EXCEPT ![bi][pix] = s.px]
          /\ modified' = (modified \/ s.modified)
    /\ pix' = pix + 1
    /\ UNCHANGED <<tool, palette, orig, matched, bi, versions, pass, pc, err>>
    /\ UNCHANGED <<transformVars, pixelVars, loadVars, exportVars, batchVars, decodeVars, nearestVars, pipelineVars>>

\* matchFrameToPalette_ ends: version bump when modified; next frame
matchFrameToPaletteEnd ==
    /\ pc = "match" /\ tool = "editor"
    /\ bi <= Len(bufs) /\ pix > Len(bufs[bi])
    /\ versions' = IF modified THEN [versions EXCEPT ![bi] = @ + 1] ELSE versions
    /\ bi' = bi + 1 /\ pix' = 1 /\ modified' = FALSE
    /\ UNCHANGED <<tool, palette, bufs, orig, matched, cache, pass, pc, err>>
    /\ UNCHANGED <<transformVars, pixelVars, loadVars, exportVars, batchVars, decodeVars, nearestVars, pipelineVars>>

\* matchToPalette: all frames matched
matchToPaletteReturn ==
    /\ pc = "match" /\ tool = "editor"
    /\ bi > Len(bufs)
    /\ pc' = "done"
    /\ UNCHANGED <<tool, palette, bufs, orig, matched, bi, pix, cache, modified,
                   versions, pass, err>>
    /\ UNCHANGED <<transformVars, pixelVars, loadVars, exportVars, batchVars, decodeVars, nearestVars, pipelineVars>>

\* the tool is run again, with the same palette, on what the first run left
Rematch ==
    /\ pc = "done" /\ pass = 1
    /\ pass' = 2
    /\ matched' = bufs
    /\ pc' = "start"
    /\ UNCHANGED <<tool, palette, bufs, orig, bi, pix, cache, modified, versions, err>>
    /\ UNCHANGED <<transformVars, pixelVars, loadVars, exportVars, batchVars, decodeVars, nearestVars, pipelineVars>>

NextMatch ==
    \/ processPiskelFileStart
    \/ matchPngToPaletteStep
    \/ matchPngToPaletteReturn
    \/ processPiskelFileWrite
    \/ applyPaletteStart
    \/ applyPaletteStep
    \/ applyPaletteToImageDataStep
    \/ applyPaletteReturn
    \/ matchToPaletteStart
    \/ matchFrameToPaletteStep
    \/ matchFrameToPaletteEnd
    \/ matchToPaletteReturn
    \/ Rematch

SpecMatch == InitMatch /\ [][NextMatch]_vars

----------------------------------------------------------------------------
(* PNG buffers.  png.data is kept as the row-major sequence of its RGBA    *)
(* pixels; the byte index (width * y + x) << 2 of the code is the pixel    *)
(* index width * y + x here.                                               *)

ZeroPx == <<0, 0, 0, 0>>

\* new PNG({ width, height }): a zero-filled buffer
NewPNG(w, h) == [width |-> w, height |-> h, data |-> [k \in 1..(w * h) |-> ZeroPx]]

\* png.data[idx .. idx+3] as copied into another buffer: a read past the
\* end is undefined, and undefined is stored as 0
ReadPx(png, idx) ==
    IF idx \in 0..(Len(png.data) - 1) THEN png.data[idx + 1] ELSE ZeroPx

\* png.data[idx + 3] > 0
HasAlpha(png, idx) ==
    idx \in 0..(Len(png.data) - 1) /\ png.data[idx + 1][4] > 0

SetMin(S) == CHOOSE m \in S : \A n \in S : m <= n

SetMax(S) == CHOOSE m \in S : \A n \in S : m >= n

Rect(x, y, w, h) == [kind |-> "rect", x |-> x, y |-> y, width |-> w, height |-> h]

\* mutant: a buffer without content yields an empty rectangle
findContentBoundsOrEmpty(png) ==
    LET pts == { q \in (0..(png.width - 1)) \X (0..(png.height - 1)) :
                   HasAlpha(png, png.width * q[2] + q[1]) }
        xs == { q[1] : q \in pts }
        ys == { q[2] : q \in pts }
    IN IF pts = {} THEN Rect(0, 0, 0, 0)
       ELSE Rect(SetMin(xs), SetMin(ys),
                 SetMax(xs) - SetMin(xs) + 1, SetMax(ys) - SetMin(ys) + 1)

findContentBounds(png) ==
    LET pts == { q \in (0..(png.width - 1)) \X (0..(png.height - 1)) :
                   HasAlpha(png, png.width * q[2] + q[1]) }
        xs == { q[1] : q \in pts }
        ys == { q[2] : q \in pts }
    IN IF pts = {} THEN Rect(0, 0, png.width, png.height)
       ELSE Rect(SetMin(xs), SetMin(ys),
                 SetMax(xs) - SetMin(xs) + 1, SetMax(ys) - SetMin(ys) + 1)

cropPng(png, bounds) ==
    [width |-> bounds.width, height |-> bounds.height,
     data |-> [k \in 1..(bounds.width * bounds.height) |->
                 LET x == (k - 1) % bounds.width
                     y == (k - 1) \div bounds.width
                 IN ReadPx(png, png.width * (y + bounds.y) + (x + bounds.x))]]

\* mutant: the sample position is rounded up
resizePngCeil(png, nw, nh) ==
    [width |-> nw, height |-> nh,
     data |-> [k \in 1..(nw * nh) |->
                 LET x == (k - 1) % nw
                     y == (k - 1) \div nw
                     srcX == (x * png.width + nw - 1) \div nw
                     srcY == (y * png.height + nh - 1) \div nh
                 IN ReadPx(png, png.width * srcY + srcX)]]

resizePng(png, nw, nh) ==
    [width |-> nw, height |-> nh,
     data |-> [k \in 1..(nw * nh) |->
                 LET x == (k - 1) % nw
                     y == (k - 1) \div nw
                     srcX == (x * png.width) \div nw
                     srcY == (y * png.height) \div nh
                 IN ReadPx(png, png.width * srcY + srcX)]]

----------------------------------------------------------------------------
(* Containers.  A layer string is kept as the record it parses to; a chunk *)
(* is [layout, hasPng, png] with layout[i] = <<frameIndex>>.               *)

\* the frame-extraction loop shared by the exporter and the transform
extractTile(png, frameX, frameY, fw, fh) ==
    [width |-> fw, height |-> fh,
     data |-> [k \in 1..(fw * fh) |->
                 LET x == (k - 1) % fw
                     y == (k - 1) \div fw
                 IN ReadPx(png, png.width * (frameY + y) + (frameX + x))]]

\* Math.floor(png.width / frameWidth) || 1
framesPerRowOr1(png, fw) ==
    LET q == png.width \div fw IN IF q = 0 THEN 1 ELSE q

\* mutant: a chunk without base64PNG ends the chunk loop
RECURSIVE extractFramesFromStopAtEmpty(_, _, _, _)
extractFramesFromStopAtEmpty(chunks, fw, fh, frames) ==
    IF chunks = <<>> THEN frames
    ELSE LET chunk == Head(chunks)
         IN IF ~chunk.hasPng THEN frames
            ELSE LET fpr == framesPerRowOr1(chunk.png, fw)
                     n == Len(chunk.layout)
                     idxs == { chunk.layout[i][1] : i \in 1..n }
                     slotOf(k) == SetMax({ i \in 1..n : chunk.layout[i][1] = k })
                     tile(i) == extractTile(chunk.png, ((i - 1) % fpr) * fw,
                                            ((i - 1) \div fpr) * fh, fw, fh)
                     next == [k \in (DOMAIN frames) \cup idxs |->
                                IF k \in idxs THEN tile(slotOf(k)) ELSE frames[k]]
                 IN extractFramesFromStopAtEmpty(Tail(chunks), fw, fh, next)

\* piskel-to-png extractFrames: frames[layout[i][0]] = tile i, first layer.
\* The sparse array frames is the function from assigned index to frame.
RECURSIVE extractFramesFrom(_, _, _, _)
extractFramesFrom(chunks, fw, fh, frames) ==
    IF chunks = <<>> THEN frames
    ELSE LET chunk == Head(chunks)
         IN IF ~chunk.hasPng THEN extractFramesFrom(Tail(chunks), fw, fh, frames)
            ELSE LET fpr == framesPerRowOr1(chunk.png, fw)
                     n == Len(chunk.layout)
                     idxs == { chunk.layout[i][1] : i \in 1..n }
                     \* a later slot naming the same index overwrites
                     slotOf(k) == SetMax({ i \in 1..n : chunk.layout[i][1] = k })
                     tile(i) == extractTile(chunk.png, ((i - 1) % fpr) * fw,
                                            ((i - 1) \div fpr) * fh, fw, fh)
                     next == [k \in (DOMAIN frames) \cup idxs |->
                                IF k \in idxs THEN tile(slotOf(k)) ELSE frames[k]]
                 IN extractFramesFrom(Tail(chunks), fw, fh, next)

extractFrames(piskelData) ==
    extractFramesFrom(piskelData.layers[1].chunks, piskelData.width, piskelData.height,
                      [k \in {} |-> ZeroPx])

----------------------------------------------------------------------------
(* transformPiskel *)

\* first pass, one chunk: the in-frame coordinates of every pixel with
\* alpha > 0 in any slot.  framesPerRow has no "|| 1" here: for 0 the slot
\* offsets are NaN and the index (NaN << 2) is 0.
chunkContentPoints(chunk, fw, fh) ==
    IF ~chunk.hasPng THEN {}
    ELSE LET png == chunk.png
             fpr == png.width \div fw
         IN { q \in (0..(fw - 1)) \X (0..(fh - 1)) :
                \E i \in 0..(Len(chunk.layout) - 1) :
                    LET idx == IF fpr = 0 THEN 0
                               ELSE png.width * ((i \div fpr) * fh + q[2])
                                      + ((i % fpr) * fw + q[1])
                    IN HasAlpha(png, idx) }

\* mutant: only the first layer is scanned
contentPointsFirstLayer(d) ==
    UNION { chunkContentPoints(d.layers[1].chunks[c], d.width, d.height) :
              c \in 1..Len(d.layers[1].chunks) }

\* first pass, all chunks of all layers
contentPoints(d) ==
    UNION { UNION { chunkContentPoints(d.layers[l].chunks[c], d.width, d.height) :
                      c \in 1..Len(d.layers[l].chunks) } :
              l \in 1..Len(d.layers) }

\* globalMin/Max and the test globalMinX <= globalMaxX && globalMinY <= globalMaxY
globalCropBounds(d) ==
    LET pts == contentPoints(d)
        xs == { q[1] : q \in pts }
        ys == { q[2] : q \in pts }
        globalMaxX == SetMax(xs \cup {0})
        globalMaxY == SetMax(ys \cup {0})
    IN IF pts = {} THEN NoBounds
       ELSE Rect(SetMin(xs), SetMin(ys),
                 globalMaxX - SetMin(xs) + 1, globalMaxY - SetMin(ys) + 1)

\* Math.round(x * scale) for scale = num / den
RoundScaled(x, scale) == (2 * x * scale[1] + scale[2]) \div (2 * scale[2])

NoOption == <<>>

\* mutant: the resize comes before the crop
transformFrameResizeFirst(framePng, cb, nw, nh) ==
    LET resized == IF framePng.width # nw \/ framePng.height # nh
                   THEN resizePng(framePng, nw, nh) ELSE framePng
    IN IF cb # NoBounds THEN cropPng(resized, cb) ELSE resized

\* per frame: crop if needed, then resize if needed
transformFrame(framePng, cb, nw, nh) ==
    LET cropped == IF cb # NoBounds THEN cropPng(framePng, cb) ELSE framePng
    IN IF cropped.width # nw \/ cropped.height # nh
       THEN resizePng(cropped, nw, nh) ELSE cropped

\* mutant: the chunk keeps the layout it came with
transformChunkKeepLayout(chunk, fw, fh, cb, nw, nh) ==
    IF ~chunk.hasPng THEN chunk
    ELSE LET png == chunk.png
             fpr == framesPerRowOr1(png, fw)
             numFrames == Len(chunk.layout)
             framePng(f) == transformFrame(
                                extractTile(png, (f % fpr) * fw, (f \div fpr) * fh, fw, fh),
                                cb, nw, nh)
             sheetW == nw * numFrames
             newSheet == [width |-> sheetW, height |-> nh,
                          data |-> [k \in 1..(sheetW * nh) |->
                                      LET col == (k - 1) % sheetW
                                          y == (k - 1) \div sheetW
                                      IN ReadPx(framePng(col \div nw), nw * y + (col % nw))]]
         IN [chunk EXCEPT !.png = newSheet]

\* the body of the chunk loop: a new one-row sheet and a linear layout
transformChunk(chunk, fw, fh, cb, nw, nh) ==
    IF ~chunk.hasPng THEN chunk
    ELSE LET png == chunk.png
             fpr == framesPerRowOr1(png, fw)
             numFrames == Len(chunk.layout)
             framePng(f) == transformFrame(
                                extractTile(png, (f % fpr) * fw, (f \div fpr) * fh, fw, fh),
                                cb, nw, nh)
             sheetW == nw * numFrames
             newSheet == [width |-> sheetW, height |-> nh,
                          data |-> [k \in 1..(sheetW * nh) |->
                                      LET col == (k - 1) % sheetW
                                          y == (k - 1) \div sheetW
                                      IN ReadPx(framePng(col \div nw), nw * y + (col % nw))]]
         IN [chunk EXCEPT !.png = newSheet,
                          !.layout = [i \in 1..numFrames |-> <<i - 1>>]]

transformLayer(layer, fw, fh, cb, nw, nh) ==
    [layer EXCEPT !.chunks = [c \in 1..Len(layer.chunks) |->
                                transformChunk(layer.chunks[c], fw, fh, cb, nw, nh)]]

----------------------------------------------------------------------------
(* Input containers *)

Patterns == { "transparent", "scenario", "mixed", "full" }

\* what a frame shows, by its place in the container
KindOf(pattern, l, c, i) ==
    CASE pattern = "transparent" -> "none"
      [] pattern = "full" -> "full"
      [] pattern = "scenario" -> IF (l + c + i) % 2 = 1 THEN "topleft" ELSE "botright"
      [] pattern = "mixed" -> IF (l + c + i) % 2 = 1 THEN "dot" ELSE "none"

InContent(kind, x, y, w, h) ==
    CASE kind = "none" -> FALSE
      [] kind = "full" -> TRUE
      [] kind = "topleft" -> x < (w + 1) \div 2 /\ y < (h + 1) \div 2
      [] kind = "botright" -> x >= 1 /\ y >= 1
      [] kind = "dot" -> x = w - 1 /\ y = 0

\* frame i of chunk c of layer l: every pixel distinct, opaque inside the content
FramePng(pattern, l, c, i, w, h) ==
    [width |-> w, height |-> h,
     data |-> [k \in 1..(w * h) |->
                 LET x == (k - 1) % w
                     y == (k - 1) \div w
                 IN << 50 * l + 10 * c + i, x, y,
                       IF InContent(KindOf(pattern, l, c, i), x, y, w, h) THEN 255 ELSE 0 >>]]

\* the sheet of a chunk as the editor stores it: n tiles, cols per row
MakeSheet(tiles, cols, w, h) ==
    LET n == Len(tiles)
        rows == (n + cols - 1) \div cols
        sw == w * cols
    IN [width |-> sw, height |-> h * rows,
        data |-> [k \in 1..(sw * h * rows) |->
                    LET X == (k - 1) % sw
                        Y == (k - 1) \div sw
                        slot == (Y \div h) * cols + (X \div w)
                    IN IF slot < n THEN tiles[slot + 1].data[w * (Y % h) + (X % w) + 1]
                       ELSE ZeroPx]]

\* chunk c of layer l with n frames whose first frame index is off;
\* n = 0 is a chunk without image payload
MakeChunk(pattern, l, c, n, off, reversed, column, w, h) ==
    IF n = 0 THEN [layout |-> <<>>, hasPng |-> FALSE, png |-> NewPNG(0, 0)]
    ELSE [layout |-> [i \in 1..n |-> << IF reversed THEN off + n - i ELSE off + i - 1 >>],
          hasPng |-> TRUE,
          png |-> MakeSheet([i \in 1..n |->
                               FramePng(pattern, l, c,
                                        IF reversed THEN n + 1 - i ELSE i, w, h)],
                            IF column THEN 1 ELSE n, w, h)]

RECURSIVE SumTo(_, _)
SumTo(shape, c) == IF c = 0 THEN 0 ELSE shape[c] + SumTo(shape, c - 1)

MakeLayer(pattern, l, shape, reversed, column, w, h) ==
    [name |-> l, opacity |-> 1, frameCount |-> SumTo(shape, Len(shape)),
     chunks |-> [c \in 1..Len(shape) |->
                   MakeChunk(pattern, l, c, shape[c], SumTo(shape, c - 1),
                             reversed, column, w, h)]]

\* frames per chunk of a layer: every chunk alike, or all but one chunk
\* (which has no image payload) alike
ShapesOf(k) ==
    { [c \in 1..k |-> n] : n \in 0..MaxFrames }
    \cup { [c \in 1..k |-> IF c = e THEN 0 ELSE n] : n \in 1..MaxFrames, e \in 1..k }

LayerShapes == UNION { ShapesOf(k) : k \in 1..MaxChunks }

\* frame size and content pattern
Subjects ==
    { <<(<<2, 3>>), pattern>> : pattern \in Patterns } \cup { <<(<<4, 4>>), "scenario">> }

\* <<reversed layout, one tile per row>>
Storages == { <<FALSE, FALSE>>, <<TRUE, FALSE>>, <<FALSE, TRUE>> }

Containers ==
    { [width |-> subject[1][1], height |-> subject[1][2],
       layers |-> [l \in 1..nl |->
                     MakeLayer(subject[2], l, shape, storage[1], storage[2],
                               subject[1][1], subject[1][2])]] :
        subject \in Subjects, nl \in 1..MaxLayers,
        shape \in LayerShapes, storage \in Storages }

\* --crop, --resize WxH, --scale N; main rejects a run with none of them.
\* Neither main nor transformPiskel looks at the values: 0x5 and a factor
\* that rounds every dimension to 0 are passed on like any other.
OptionsFor(w, h) ==
    { [crop |-> TRUE, resize |-> NoOption, scale |-> NoOption],
      [crop |-> FALSE, resize |-> <<w, h>>, scale |-> NoOption],
      [crop |-> FALSE, resize |-> <<3, 5>>, scale |-> NoOption],
      [crop |-> TRUE, resize |-> <<3, 5>>, scale |-> NoOption],
      [crop |-> FALSE, resize |-> NoOption, scale |-> <<2, 1>>],
      [crop |-> TRUE, resize |-> NoOption, scale |-> <<2, 1>>],
      [crop |-> TRUE, resize |-> NoOption, scale |-> <<1, 2>>],
      [crop |-> FALSE, resize |-> NoOption, scale |-> <<3, 2>>],
      [crop |-> FALSE, resize |-> <<3, 5>>, scale |-> <<2, 1>>],
      [crop |-> FALSE, resize |-> <<0, 5>>, scale |-> NoOption],
      [crop |-> TRUE, resize |-> NoOption, scale |-> <<1, 8>>] }

MatchIdle ==
    /\ tool = "none"
    /\ palette = <<>>
    /\ bufs = <<>>
    /\ orig = <<>>
    /\ matched = <<>>
    /\ bi = 0
    /\ pix = 0
    /\ cache = EmptyCache
    /\ modified = FALSE
    /\ versions = <<>>
    /\ pass = 0
    /\ pc = "idle"
    /\ err = "none"

----------------------------------------------------------------------------
(* SpecTransform *)

InitTransform ==
    /\ input \in Containers
    /\ options \in OptionsFor(input.width, input.height)
    /\ data = NoFile
    /\ cropBounds = NoBounds
    /\ newWidth = 0
    /\ newHeight = 0
    /\ li = 0
    /\ written = NoFile
    /\ tpc = "read"
    /\ MatchIdle /\ PixelIdle /\ LoadIdle /\ ExportIdle /\ BatchIdle /\ DecodeIdle /\ NearestIdle /\ PipelineIdle

\* readFileSync + JSON.parse; newWidth/newHeight start as the declared size
transformRead ==
    /\ tpc = "read"
    /\ data' = input
    /\ newWidth' = input.width
    /\ newHeight' = input.height
    /\ cropBounds' = NoBounds
    /\ tpc' = "crop"
    /\ UNCHANGED <<input, options, li, written>>
    /\ UNCHANGED <<matchVars, pixelVars, loadVars, exportVars, batchVars, decodeVars, nearestVars, pipelineVars>>

\* first pass: the global crop bounds, when --crop is given
transformCropBounds ==
    /\ tpc = "crop"
    /\ LET cb == IF options.crop THEN globalCropBounds(data) ELSE NoBounds
       IN /\ cropBounds' = cb
          /\ newWidth' = IF cb # NoBounds THEN cb.width ELSE newWidth
          /\ newHeight' = IF cb # NoBounds THEN cb.height ELSE newHeight
    /\ tpc' = "resolve"
    /\ UNCHANGED <<data, input, options, li, written>>
    /\ UNCHANGED <<matchVars, pixelVars, loadVars, exportVars, batchVars, decodeVars, nearestVars, pipelineVars>>

\* mutant: the scale factor multiplies the declared size, cropped or not
transformResolveDeclaredSize ==
    /\ tpc = "resolve"
    /\ IF options.resize # NoOption
       THEN /\ newWidth' = options.resize[1]
            /\ newHeight' = options.resize[2]
       ELSE IF options.scale # NoOption
            THEN /\ newWidth' = RoundScaled(data.width, options.scale)
                 /\ newHeight' = RoundScaled(data.height, options.scale)
            ELSE UNCHANGED <<newWidth, newHeight>>
    /\ li' = 1
    /\ tpc' = "layers"
    /\ UNCHANGED <<data, input, options, cropBounds, written>>
    /\ UNCHANGED <<matchVars, pixelVars, loadVars, exportVars, batchVars, decodeVars, nearestVars, pipelineVars>>

\* apply resize/scale to the target size
transformResolve ==
    /\ tpc = "resolve"
    /\ IF options.resize # NoOption
       THEN /\ newWidth' = options.resize[1]
            /\ newHeight' = options.resize[2]
       ELSE IF options.scale # NoOption
            THEN /\ newWidth' = RoundScaled(IF cropBounds # NoBounds THEN cropBounds.width
                                             ELSE data.width, options.scale)
                 /\ newHeight' = RoundScaled(IF cropBounds # NoBounds THEN cropBounds.height
                                              ELSE data.height, options.scale)
            ELSE UNCHANGED <<newWidth, newHeight>>
    /\ li' = 1
    /\ tpc' = "layers"
    /\ UNCHANGED <<data, input, options, cropBounds, written>>
    /\ UNCHANGED <<matchVars, pixelVars, loadVars, exportVars, batchVars, decodeVars, nearestVars, pipelineVars>>

\* one iteration of the layer loop
transformLayerStep ==
    /\ tpc = "layers"
    /\ li <= Len(data.layers)
    /\ data' = [data EXCEPT !.layers[li] =
                   transformLayer(data.layers[li], data.width, data.height,
                                  cropBounds, newWidth, newHeight)]
    /\ li' = li + 1
    /\ UNCHANGED <<input, options, cropBounds, newWidth, newHeight, written, tpc>>
    /\ UNCHANGED <<matchVars, pixelVars, loadVars, exportVars, batchVars, decodeVars, nearestVars, pipelineVars>>

\* mutant: the layers transformed so far are written when a layer fails
transformLayerThrowsAfterWrite ==
    /\ tpc = "layers"
    /\ li <= Len(data.layers)
    /\ newWidth < 1 \/ newHeight < 1
    /\ \E c \in 1..Len(data.layers[li].chunks) : data.layers[li].chunks[c].hasPng
    /\ written' = data
    /\ tpc' = "failed"
    /\ UNCHANGED <<data, input, options, cropBounds, newWidth, newHeight, li>>
    /\ UNCHANGED <<matchVars, pixelVars, loadVars, exportVars, batchVars, decodeVars, nearestVars, pipelineVars>>

\* encodePng of a sheet without pixels: PNG.sync.write is library code, it
\* may return (transformLayerStep) or throw; main catches the exception
transformLayerThrows ==
    /\ tpc = "layers"
    /\ li <= Len(data.layers)
    /\ newWidth < 1 \/ newHeight < 1
    /\ \E c \in 1..Len(data.layers[li].chunks) : data.layers[li].chunks[c].hasPng
    /\ tpc' = "failed"
    /\ UNCHANGED <<data, input, options, cropBounds, newWidth, newHeight, li, written>>
    /\ UNCHANGED <<matchVars, pixelVars, loadVars, exportVars, batchVars, decodeVars, nearestVars, pipelineVars>>

\* mutant: the declared dimensions are not updated
transformWriteOldSize ==
    /\ tpc = "layers"
    /\ li > Len(data.layers)
    /\ data' = data
    /\ written' = data'
    /\ tpc' = "done"
    /\ UNCHANGED <<input, options, cropBounds, newWidth, newHeight, li>>
    /\ UNCHANGED <<matchVars, pixelVars, loadVars, exportVars, batchVars, decodeVars, nearestVars, pipelineVars>>

\* update the declared dimensions and write the output file
transformWrite ==
    /\ tpc = "layers"
    /\ li > Len(data.layers)
    /\ data' = [data EXCEPT !.width = newWidth, !.height = newHeight]
    /\ written' = data'
    /\ tpc' = "done"
    /\ UNCHANGED <<input, options, cropBounds, newWidth, newHeight, li>>
    /\ UNCHANGED <<matchVars, pixelVars, loadVars, exportVars, batchVars, decodeVars, nearestVars, pipelineVars>>

NextTransform ==
    \/ transformRead
    \/ transformCropBounds
    \/ transformResolve
    \/ transformLayerStep
    \/ transformLayerThrows
    \/ transformWrite

SpecTransform == InitTransform /\ [][NextTransform]_vars

----------------------------------------------------------------------------
(* Views used by the properties of SpecMatch *)

\* the RGBA bytes of a pixel of the running tool
Rgba(px) == IF tool = "editor" THEN ColorIntRgba(px) ELSE px

\* the colour list the running tool matches against
PaletteData == IF tool = "editor" THEN buildPaletteData_(palette) ELSE palette

PixelIndex == { <<b, i>> : b \in 1..Len(orig), i \in 1..MaxPixels + 1 } 

Positions == { p \in PixelIndex : p[2] <= Len(orig[p[1]]) }

IsBytePalette ==
    \A k \in 1..Len(PaletteData) :
        \A ch \in 1..3 : PaletteData[k][ch] \in 0..255

\* 512 times the redmean distance of the specification, divisions exact
ExactDistance512(p, q) ==
    LET s == p[1] + q[1]
        dr == p[1] - q[1]
        dg == p[2] - q[2]
        db == p[3] - q[3]
    IN (1024 + s) * dr * dr + 2048 * dg * dg + (1534 - s) * db * db

Dist(p, q) == colorDistance(p[1], p[2], p[3], q[1], q[2], q[3])

\* smallest palette index whose distance to p is minimal
FirstMinIndex(p, pal) ==
    CHOOSE k \in 1..Len(pal) :
        /\ \A j \in 1..Len(pal) : Dist(p, pal[k]) <= Dist(p, pal[j])
        /\ \A j \in 1..(k - 1) : Dist(p, pal[j]) > Dist(p, pal[k])

Rgb(px) == << Rgba(px)[1], Rgba(px)[2], Rgba(px)[3] >>

Stored(c) == << ToUint8(c[1]), ToUint8(c[2]), ToUint8(c[3]) >>

----------------------------------------------------------------------------
(* Properties of palette matching *)

\* C1: with a non-empty palette, matching never changes an alpha byte and
\* never changes any byte of a pixel whose alpha is 0.
C1_AlphaAndTransparentUntouched ==
    Len(palette) > 0 =>
        \A p \in Positions :
            LET before == Rgba(orig[p[1]][p[2]])
                after == Rgba(bufs[p[1]][p[2]])
            IN /\ after[4] = before[4]
               /\ (before[4] = 0 => after = before)

C1_Witness ==
    /\ pc = "done" /\ Len(palette) > 0
    /\ \E p \in Positions : Rgba(orig[p[1]][p[2]])[4] = 0 /\ Rgb(orig[p[1]][p[2]]) # <<0, 0, 0>>
    /\ \E p \in Positions : bufs[p[1]][p[2]] # orig[p[1]][p[2]]

\* C2: the colour written for a pixel with nonzero alpha is a palette entry
\* that minimizes the redmean distance computed with exact divisions.
C2_ExactRedmeanMinimizer ==
    (pc = "done" /\ pass = 1 /\ Len(palette) > 0 /\ IsBytePalette) =>
        \A p \in Positions :
            Rgba(orig[p[1]][p[2]])[4] # 0 =>
                /\ \E k \in 1..Len(PaletteData) : Rgb(bufs[p[1]][p[2]]) = PaletteData[k]
                /\ \A k \in 1..Len(PaletteData) :
                       ExactDistance512(Rgb(orig[p[1]][p[2]]), Rgb(bufs[p[1]][p[2]]))
                         <= ExactDistance512(Rgb(orig[p[1]][p[2]]), PaletteData[k])

\* C3: among the palette entries of minimal distance the one of smallest
\* index is selected, also when the scan stops early at distance 0.
C3_FirstMinimumWins ==
    (pc = "done" /\ pass = 1 /\ Len(palette) > 0) =>
        \A p \in Positions :
            Rgba(orig[p[1]][p[2]])[4] # 0 =>
                Rgb(bufs[p[1]][p[2]]) =
                    Stored(PaletteData[FirstMinIndex(Rgb(orig[p[1]][p[2]]), PaletteData)])

C3_Witness ==
    /\ pc = "done" /\ pass = 1 /\ Len(palette) = 2
    /\ PaletteData[1] # PaletteData[2]
    /\ \E p \in Positions :
           /\ Rgba(orig[p[1]][p[2]])[4] # 0
           /\ Dist(Rgb(orig[p[1]][p[2]]), PaletteData[1]) = Dist(Rgb(orig[p[1]][p[2]]), PaletteData[2])
           /\ Rgb(bufs[p[1]][p[2]]) = PaletteData[1]

\* C4: a second match with the same palette changes no byte of the buffer
\* the first match produced.
C4_RematchIsNoOp ==
    (pc = "done" /\ pass = 2 /\ Len(palette) > 0) => bufs = matched

\* C5: a match with an empty palette never completes as a success.
C5_EmptyPaletteFails ==
    Len(palette) = 0 => pc # "done"

\* C6: a match with an empty palette changes no byte of any buffer and no
\* frame version.
C6_EmptyPaletteNoMutation ==
    Len(palette) = 0 =>
        /\ bufs = orig
        /\ \A k \in 1..Len(versions) : versions[k] = 0

C6_Witness ==
    /\ Len(palette) = 0
    /\ pc = "failed"
    /\ \E p \in Positions : Rgba(orig[p[1]][p[2]])[4] # 0

\* what the pass started from
PassSource == IF pass = 1 THEN orig ELSE matched

\* the pixels the loops have gone past
Visited ==
    IF pc \notin {"match", "done", "failed"} THEN {}
    ELSE { p \in Positions : p[1] < bi \/ (p[1] = bi /\ p[2] < pix) }

\* the pixel the running tool writes when it searches the palette afresh
Uncached(px) ==
    CASE tool = "match" -> matchPngPixel(px, palette, EmptyCache).px
      [] tool = "pipeline" -> applyPalettePixel(px, palette, EmptyCache).px
      [] tool = "import" -> applyPaletteToImageDataPixel(px, palette, EmptyCache).px
      [] tool = "editor" -> matchFramePixel(px, buildPaletteData_(palette), EmptyCache).px

\* C23: the cache does not affect results: every pixel a matcher has gone
\* past holds what a fresh nearest-colour search for that pixel writes, over
\* all chunks of a file and all frames of the editor, in both passes.
C23_CacheIsTransparent ==
    \A p \in Visited : bufs[p[1]][p[2]] = Uncached(PassSource[p[1]][p[2]])

C23_Witness ==
    /\ pc = "done" /\ pass = 1 /\ Len(palette) = 2
    /\ Len(orig) = 2
    /\ orig[1][1] = orig[2][1]
    /\ Rgba(orig[1][1])[4] # 0
    /\ bufs[2][1] # orig[2][1]
    /\ Cardinality(DOMAIN cache) = 1

----------------------------------------------------------------------------
(* Views used by the properties of SpecTransform *)

\* layer l of d as a one-layer container, for extractFrames
LayerPiskel(d, l) == [d EXCEPT !.layers = <<d.layers[l]>>]

\* <<l, c>> of every chunk of the input that has an image payload
PngChunks ==
    { q \in (1..Len(input.layers)) \X (1..MaxChunks + 1) :
        /\ q[2] <= Len(input.layers[q[1]].chunks)
        /\ input.layers[q[1]].chunks[q[2]].hasPng }

\* the tile of slot f (from 0) of chunk q of the input
SourceTile(q, f) ==
    LET png == input.layers[q[1]].chunks[q[2]].png
        fpr == framesPerRowOr1(png, input.width)
    IN extractTile(png, (f % fpr) * input.width, (f \div fpr) * input.height,
                   input.width, input.height)

SlotsOf(q) == 0..(Len(input.layers[q[1]].chunks[q[2]].layout) - 1)

SourceTiles == { t \in { [q |-> q, f |-> f] : q \in PngChunks, f \in 0..MaxFrames } :
                   t.f \in SlotsOf(t.q) }

HasContent(png) == \E k \in 1..Len(png.data) : png.data[k][4] > 0

UnionRect(S) ==
    LET x0 == SetMin({ r.x : r \in S })
        y0 == SetMin({ r.y : r \in S })
    IN Rect(x0, y0, SetMax({ r.x + r.width : r \in S }) - x0,
            SetMax({ r.y + r.height : r \in S }) - y0)

CropDecided == tpc \in {"resolve", "layers", "done", "failed"}

\* the pixel that output pixel (x, y) of a frame must show: the source
\* pixel at the crop origin plus the nearest-neighbour sample position
ExpectedPx(src, x, y) ==
    LET cx == IF cropBounds = NoBounds THEN 0 ELSE cropBounds.x
        cy == IF cropBounds = NoBounds THEN 0 ELSE cropBounds.y
        cw == IF cropBounds = NoBounds THEN src.width ELSE cropBounds.width
        ch == IF cropBounds = NoBounds THEN src.height ELSE cropBounds.height
    IN src.data[src.width * (cy + (y * ch) \div newHeight) + cx + (x * cw) \div newWidth + 1]

ExpectedFrame(src) ==
    [width |-> newWidth, height |-> newHeight,
     data |-> [k \in 1..(newWidth * newHeight) |->
                 ExpectedPx(src, (k - 1) % newWidth, (k - 1) \div newWidth)]]

----------------------------------------------------------------------------
(* Properties of the uniform transform *)

\* C7: after the transform, frame index k of each layer (the index named by
\* layout) holds the transformed content of what frame index k held before.
C7_FramesKeepTheirIndex ==
    tpc = "done" =>
        \A l \in 1..Len(input.layers) :
            LET before == extractFrames(LayerPiskel(input, l))
                after == extractFrames(LayerPiskel(written, l))
            IN \A k \in DOMAIN before :
                   k \in DOMAIN after /\ after[k] = ExpectedFrame(before[k])

\* C8: after the transform every frame has the declared width and height,
\* and every re-encoded sheet is a whole number of frames wide.
C8_UniformDimensions ==
    tpc = "done" =>
        /\ written.width = newWidth /\ written.height = newHeight
        /\ \A q \in PngChunks :
               LET chunk == written.layers[q[1]].chunks[q[2]]
               IN /\ chunk.png.height = written.height
                  /\ chunk.png.width = Len(chunk.layout) * written.width
                  /\ \E n \in 0..Len(chunk.layout) : chunk.png.width = n * written.width
                  /\ Len(chunk.png.data) = chunk.png.width * chunk.png.height
                  /\ \A f \in SlotsOf(q) :
                         LET fr == transformFrame(SourceTile(q, f), cropBounds,
                                                  newWidth, newHeight)
                         IN fr.width = written.width /\ fr.height = written.height

C8_Witness ==
    /\ tpc = "done"
    /\ written.width # input.width
    /\ written.height # input.height
    /\ Cardinality(PngChunks) >= 2
    /\ \E q \in PngChunks : Len(input.layers[q[1]].chunks[q[2]].layout) >= 2

C10_CropThenResize ==
    tpc = "done" =>
        \A q \in PngChunks :
            LET sheet == written.layers[q[1]].chunks[q[2]].png
            IN \A f \in SlotsOf(q) :
                   \A x \in 0..(newWidth - 1) :
                       \A y \in 0..(newHeight - 1) :
                           sheet.data[sheet.width * y + f * newWidth + x + 1]
                             = ExpectedPx(SourceTile(q, f), x, y)

C10_Witness ==
    /\ tpc = "done"
    /\ cropBounds # NoBounds
    /\ cropBounds # Rect(0, 0, input.width, input.height)
    /\ cropBounds.x > 0
    /\ (cropBounds.width # newWidth \/ cropBounds.height # newHeight)
    /\ Cardinality(SourceTiles) >= 3

\* C25: a re-encoded chunk with n layout slots has a sheet of exactly
\* (targetWidth * n) x targetHeight that holds the n transformed frames in
\* one row in slot order, and its layout is the identity layout of length n.
C25_ReencodedChunk ==
    tpc = "done" =>
        \A q \in PngChunks :
            LET before == input.layers[q[1]].chunks[q[2]]
                after == written.layers[q[1]].chunks[q[2]]
                n == Len(before.layout)
            IN /\ after.png.width = newWidth * n
               /\ after.png.height = newHeight
               /\ Len(after.png.data) = newWidth * n * newHeight
               /\ after.layout = [i \in 1..n |-> <<i - 1>>]
               /\ \A f \in 0..(n - 1) :
                      extractTile(after.png, f * newWidth, 0, newWidth, newHeight)
                        = transformFrame(SourceTile(q, f), cropBounds, newWidth, newHeight)

C25_Witness ==
    /\ tpc = "done"
    /\ newWidth >= 1 /\ newHeight >= 1
    /\ newWidth # input.width
    /\ \E q \in PngChunks :
           LET before == input.layers[q[1]].chunks[q[2]]
               after == written.layers[q[1]].chunks[q[2]]
           IN /\ before.layout = << <<2>>, <<3>> >>
              /\ before.png.width = input.width
              /\ after.layout = << <<0>>, <<1>> >>
              /\ after.png.width = 2 * newWidth
              /\ HasContent(after.png)

\* every frame of every chunk of every layer of the input is fully transparent
AllTransparent == \A t \in SourceTiles : ~HasContent(SourceTile(t.q, t.f))

\* C26: when cropping is requested and every frame is fully transparent,
\* there is no crop rectangle; with no resize and no scale the output keeps
\* the declared width and height and every frame of every layer keeps its
\* pixels.
C26_TransparentInputNotCropped ==
    (options.crop /\ AllTransparent /\ SourceTiles # {}) =>
        /\ CropDecided => cropBounds = NoBounds
        /\ (tpc = "done" /\ options.resize = NoOption /\ options.scale = NoOption) =>
               /\ written.width = input.width
               /\ written.height = input.height
               /\ \A l \in 1..Len(input.layers) :
                      extractFrames(LayerPiskel(written, l))
                        = extractFrames(LayerPiskel(input, l))

\* the <<chunk, slot>> pairs of a layer whose layout entry names frame index k
SlotsNaming(layer, k) ==
    { q \in (1..Len(layer.chunks)) \X (1..MaxFrames + 1) :
        /\ q[2] <= Len(layer.chunks[q[1]].layout)
        /\ layer.chunks[q[1]].layout[q[2]][1] = k }

\* the layouts of the layer's chunks together name every frame index of
\* [0, frameCount) exactly once
IndexesEveryFrameOnce(layer) ==
    \A k \in 0..(layer.frameCount - 1) : Cardinality(SlotsNaming(layer, k)) = 1

\* C30: a layer whose chunk layouts together name every frame index of
\* [0, frameCount) exactly once before the transform still does so after it,
\* also when the layer stores its frames in two or more chunks.
C30_FrameIndexingPreserved ==
    tpc = "done" =>
        \A l \in 1..Len(input.layers) :
            IndexesEveryFrameOnce(input.layers[l]) =>
                IndexesEveryFrameOnce(written.layers[l])

----------------------------------------------------------------------------
(* Properties of the target size *)

SizeResolved == tpc \in {"layers", "done", "failed"}

\* the integer nearest to x * scale, a half rounding up
NearestInteger(x, scale) ==
    CHOOSE r \in 0..(x * scale[1] + 1) :
        /\ 2 * r * scale[2] - scale[2] <= 2 * x * scale[1]
        /\ 2 * x * scale[1] < 2 * r * scale[2] + scale[2]

C14_NonPositiveTargetFails ==
    (SizeResolved /\ (newWidth < 1 \/ newHeight < 1)) =>
        /\ data = input
        /\ written = NoFile
        /\ tpc # "done"

----------------------------------------------------------------------------
(* Properties of a failed run *)

\* overwrite mode: outputFile = inputFile, so the file at the input path holds
\* what writeFileSync stored there, or the input when nothing was written
InputFileAfterRun == IF written = NoFile THEN input ELSE written

\* C29: a run that fails before its final write has written no output file;
\* in overwrite mode the input file is as it was before the run.
C29_FailedRunWritesNothing ==
    tpc = "failed" =>
        /\ written = NoFile
        /\ InputFileAfterRun = input

\* a run that fails on its second layer, the first one already transformed
C29_Witness ==
    /\ tpc = "failed"
    /\ li = 2
    /\ data.layers[1] # input.layers[1]
    /\ written = NoFile

----------------------------------------------------------------------------
(* SpecPixelOps: findContentBounds, cropPng and resizePng of               *)
(* piskel-transform and of sprite-pipeline, applied to one decoded buffer  *)

MaxSide == 2
MaxTarget == 3

\* a decoded PNG of w x h pixels, every pixel distinct; the pixels at the
\* positions of opaque have alpha > 0 (1 for the first, 255 for the others)
SourcePng(w, h, opaque) ==
    [width |-> w, height |-> h,
     data |-> [k \in 1..(w * h) |->
                 << (k - 1) % w, (k - 1) \div w, 7,
                    IF k \in opaque THEN (IF k = 1 THEN 1 ELSE 255) ELSE 0 >>]]

SourcePngs ==
    { SourcePng(w, h, opaque) :
        w \in 1..MaxSide, h \in 1..MaxSide, opaque \in SUBSET (1..(MaxSide * MaxSide)) }

\* sprite-pipeline: minX/minY start at width/height, maxX/maxY at 0
findContentBoundsPipeline(png) ==
    LET pts == { q \in (0..(png.width - 1)) \X (0..(png.height - 1)) :
                   HasAlpha(png, png.width * q[2] + q[1]) }
        minX == SetMin({ q[1] : q \in pts } \cup {png.width})
        minY == SetMin({ q[2] : q \in pts } \cup {png.height})
        maxX == SetMax({ q[1] : q \in pts } \cup {0})
        maxY == SetMax({ q[2] : q \in pts } \cup {0})
    IN IF minX > maxX THEN Rect(0, 0, png.width, png.height)
       ELSE Rect(minX, minY, maxX - minX + 1, maxY - minY + 1)

cropPngPipeline(png, b) ==
    [width |-> b.width, height |-> b.height,
     data |-> [k \in 1..(b.width * b.height) |->
                 LET x == (k - 1) % b.width
                     y == (k - 1) \div b.width
                 IN ReadPx(png, png.width * (y + b.y) + (x + b.x))]]

resizePngPipeline(png, nw, nh) ==
    [width |-> nw, height |-> nh,
     data |-> [k \in 1..(nw * nh) |->
                 LET x == (k - 1) % nw
                     y == (k - 1) \div nw
                     srcX == (x * png.width) \div nw
                     srcY == (y * png.height) \div nh
                 IN ReadPx(png, png.width * srcY + srcX)]]

InitPixelOps ==
    /\ ptool \in {"transform", "pipeline"}
    /\ psrc \in SourcePngs
    /\ ptarget \in (1..MaxTarget) \X (1..MaxTarget)
    /\ pbounds = NoBounds
    /\ pcropped = NoFile
    /\ presized = NoFile
    /\ ppc = "bounds"
    /\ MatchIdle /\ TransformIdle /\ LoadIdle /\ ExportIdle /\ BatchIdle /\ DecodeIdle /\ NearestIdle /\ PipelineIdle

findContentBoundsCall ==
    /\ ppc = "bounds"
    /\ pbounds' = IF ptool = "pipeline" THEN findContentBoundsPipeline(psrc)
                  ELSE findContentBounds(psrc)
    /\ ppc' = "crop"
    /\ UNCHANGED <<ptool, psrc, ptarget, pcropped, presized>>
    /\ UNCHANGED <<matchVars, transformVars, loadVars, exportVars, batchVars, decodeVars, nearestVars, pipelineVars>>

\* crop(buf, contentBounds(buf))
cropPngCall ==
    /\ ppc = "crop"
    /\ pcropped' = IF ptool = "pipeline" THEN cropPngPipeline(psrc, pbounds)
                   ELSE cropPng(psrc, pbounds)
    /\ ppc' = "resize"
    /\ UNCHANGED <<ptool, psrc, ptarget, pbounds, presized>>
    /\ UNCHANGED <<matchVars, transformVars, loadVars, exportVars, batchVars, decodeVars, nearestVars, pipelineVars>>

\* resize(buf, newW, newH)
resizePngCall ==
    /\ ppc = "resize"
    /\ presized' = IF ptool = "pipeline" THEN resizePngPipeline(psrc, ptarget[1], ptarget[2])
                   ELSE resizePng(psrc, ptarget[1], ptarget[2])
    /\ ppc' = "done"
    /\ UNCHANGED <<ptool, psrc, ptarget, pbounds, pcropped>>
    /\ UNCHANGED <<matchVars, transformVars, loadVars, exportVars, batchVars, decodeVars, nearestVars, pipelineVars>>

NextPixelOps ==
    \/ findContentBoundsCall
    \/ cropPngCall
    \/ resizePngCall

SpecPixelOps == InitPixelOps /\ [][NextPixelOps]_vars

----------------------------------------------------------------------------
(* Properties of the pixel functions *)

\* C12: resize returns a buffer of exactly newW x newH whose pixel (x, y) is
\* the source pixel (floor(x*srcW/newW), floor(y*srcH/newH)), a coordinate
\* inside the source buffer.
C12_ResizeSamplesNearest ==
    presized # NoFile =>
        LET nw == ptarget[1]
            nh == ptarget[2]
        IN /\ presized.width = nw /\ presized.height = nh
           /\ Len(presized.data) = nw * nh
           /\ \A x \in 0..(nw - 1) :
                  \A y \in 0..(nh - 1) :
                      LET sx == (x * psrc.width) \div nw
                          sy == (y * psrc.height) \div nh
                      IN /\ sx \in 0..(psrc.width - 1)
                         /\ sy \in 0..(psrc.height - 1)
                         /\ presized.data[nw * y + x + 1]
                              = psrc.data[psrc.width * sy + sx + 1]

C12_Witness ==
    /\ ppc = "done"
    /\ ptarget[1] > psrc.width /\ psrc.width > 1
    /\ ptarget[2] < psrc.height
    /\ ptarget[1] % psrc.width # 0

\* C13: contentBounds is the tight rectangle around the pixels with
\* alpha > 0, the full extent when there is none, and cropping a fully
\* opaque buffer to its content bounds returns the buffer.
C13_ContentBounds ==
    ppc \in {"crop", "resize", "done"} =>
        LET w == psrc.width
            h == psrc.height
            all == (0..(w - 1)) \X (0..(h - 1))
            pts == { q \in all : psrc.data[w * q[2] + q[1] + 1][4] > 0 }
        IN /\ IF pts = {} THEN pbounds = Rect(0, 0, w, h)
              ELSE /\ pbounds.kind = "rect"
                   /\ \A q \in pts :
                          /\ q[1] \in pbounds.x..(pbounds.x + pbounds.width - 1)
                          /\ q[2] \in pbounds.y..(pbounds.y + pbounds.height - 1)
                   /\ \E q \in pts : q[1] = pbounds.x
                   /\ \E q \in pts : q[1] = pbounds.x + pbounds.width - 1
                   /\ \E q \in pts : q[2] = pbounds.y
                   /\ \E q \in pts : q[2] = pbounds.y + pbounds.height - 1
           /\ (pcropped # NoFile /\ pts = all) => pcropped = psrc

C13_Witness ==
    /\ ppc = "done"
    /\ pbounds = Rect(1, 0, 1, 2)
    /\ pcropped.width = 1 /\ pcropped.height = 2
    /\ psrc.width = 2

----------------------------------------------------------------------------
(* SpecLoad: loadPalette of palette-match on one palette file *)

\* buffer[i] of a Buffer where i is past the end: undefined
UndefinedByte == -2

BufferAt(buffer, i) ==
    IF i \in 0..(Len(buffer) - 1) THEN buffer[i + 1] ELSE UndefinedByte

\* the lines of a .gpl file: header and comment lines among the colours
GplTexts == SeqsUpTo(GplLines, MaxPaletteLen)

\* the lines of a .txt file: ";" comments, "#RRGGBB", "r,g,b", anything else
TxtLines ==
    { [kind |-> "comment"], [kind |-> "other"] }
    \cup { [kind |-> "hex", hex |-> HexOf(c)] : c \in { <<255, 0, 0>>, <<0, 0, 255>> } }
    \cup { [kind |-> "rgb", r |-> c[1], g |-> c[2], b |-> c[3]] :
             c \in { <<255, 0, 0>>, <<300, 0, 0>> } }

TxtTexts == SeqsUpTo(TxtLines, MaxPaletteLen)

RECURSIVE parseTxtPalette(_)
parseTxtPalette(lines) ==
    IF lines = <<>> THEN <<>>
    ELSE LET line == Head(lines)
             rest == parseTxtPalette(Tail(lines))
         IN CASE line.kind = "hex" ->
                   <<(<< Shr(line.hex, 16) % 256, Shr(line.hex, 8) % 256, line.hex % 256 >>)>>
                     \o rest
              [] line.kind = "rgb" -> <<(<<line.r, line.g, line.b>>)>> \o rest
              [] OTHER -> rest

\* the colours of the entries of a .pal file
PalColors == { <<255, 0, 0>>, <<0, 0, 255>> }

RECURSIVE Flatten(_)
Flatten(ss) == IF ss = <<>> THEN <<>> ELSE Head(ss) \o Flatten(Tail(ss))

\* "RIFF" size "PAL " "data" size version count: 24 bytes, count at 22
RiffHeader(count) ==
    << 82, 73, 70, 70,  0, 0, 0, 0,  80, 65, 76, 32,  100, 97, 116, 97,
       0, 0, 0, 0,  0, 3,  count % 256, count \div 256 >>

\* RIFF palettes announcing count colours and holding Len(cols) entries,
\* whole or cut short
RiffFiles ==
    UNION { { SubSeq(whole, 1, len) : len \in {4, 23} \cup (24..Len(whole)) } :
              whole \in { RiffHeader(count)
                            \o Flatten([k \in 1..Len(cols) |->
                                          <<cols[k][1], cols[k][2], cols[k][3], 0>>]) :
                          count \in 0..MaxPaletteLen,
                          cols \in SeqsUpTo(PalColors, MaxPaletteLen) } }

\* raw RGB triplets, with up to two trailing bytes
RawFiles ==
    { Flatten(cols) \o extra :
        cols \in SeqsUpTo(PalColors, MaxPaletteLen), extra \in { <<>>, <<9>>, <<9, 9>> } }

\* buffer.toString('ascii', 0, 4) === 'RIFF'; decoding as ascii drops bit 7
IsRiff(buffer) ==
    /\ Len(buffer) >= 4
    /\ \A k \in 1..4 : buffer[k] % 128 = RiffHeader(0)[k]

Returned(value) == [ok |-> TRUE, value |-> value]

Thrown(error) == [ok |-> FALSE, error |-> error]

parsePalPalette(buffer) ==
    IF IsRiff(buffer)
    THEN IF Len(buffer) < 24 THEN Thrown("RangeError")
         ELSE LET numColors == buffer[23] + 256 * buffer[24]
              IN Returned([i \in 1..numColors |->
                             << BufferAt(buffer, 24 + (i - 1) * 4),
                                BufferAt(buffer, 24 + (i - 1) * 4 + 1),
                                BufferAt(buffer, 24 + (i - 1) * 4 + 2) >>])
    ELSE Returned([i \in 1..(Len(buffer) \div 3) |->
                     << buffer[3 * i - 2], buffer[3 * i - 1], buffer[3 * i] >>])

\* the colors Map: a pixel with alpha > 0 is added unless its key is there
RECURSIVE parseImagePaletteFrom(_, _)
parseImagePaletteFrom(pixels, colors) ==
    IF pixels = <<>> THEN colors
    ELSE LET px == Head(pixels)
             has == \E k \in 1..Len(colors) : colors[k] = <<px[1], px[2], px[3]>>
         IN parseImagePaletteFrom(Tail(pixels),
                IF px[4] > 0 /\ ~has THEN Append(colors, <<px[1], px[2], px[3]>>)
                ELSE colors)

parseImagePalette(png) == parseImagePaletteFrom(png.data, <<>>)

SwatchImages ==
    { [width |-> Len(d), height |-> 1, data |-> d] : d \in NonEmptySeqsUpTo(Pixels, MaxPixels) }

PaletteFiles ==
    { [ext |-> ".gpl", lines |-> t] : t \in GplTexts }
    \cup { [ext |-> ".txt", lines |-> t] : t \in TxtTexts }
    \cup { [ext |-> ".pal", bytes |-> b] : b \in RiffFiles \cup RawFiles }
    \cup { [ext |-> ".png", png |-> i] : i \in SwatchImages }
    \cup { [ext |-> ".act"] }

InitLoad ==
    /\ lfile \in PaletteFiles
    /\ loaded = NoFile
    /\ lerr = "none"
    /\ lpc = "start"
    /\ MatchIdle /\ TransformIdle /\ PixelIdle /\ ExportIdle /\ BatchIdle /\ DecodeIdle /\ NearestIdle /\ PipelineIdle

loadPaletteGpl ==
    /\ lpc = "start" /\ lfile.ext = ".gpl"
    /\ loaded' = parseGplPalette(lfile.lines)
    /\ lpc' = "done"
    /\ UNCHANGED <<lfile, lerr>>
    /\ UNCHANGED <<matchVars, transformVars, pixelVars, exportVars, batchVars, decodeVars, nearestVars, pipelineVars>>

loadPalettePal ==
    /\ lpc = "start" /\ lfile.ext = ".pal"
    /\ LET res == parsePalPalette(lfile.bytes)
       IN IF res.ok
          THEN loaded' = res.value /\ lpc' = "done" /\ lerr' = lerr
          ELSE loaded' = loaded /\ lpc' = "failed" /\ lerr' = res.error
    /\ UNCHANGED lfile
    /\ UNCHANGED <<matchVars, transformVars, pixelVars, exportVars, batchVars, decodeVars, nearestVars, pipelineVars>>

loadPaletteTxt ==
    /\ lpc = "start" /\ lfile.ext = ".txt"
    /\ loaded' = parseTxtPalette(lfile.lines)
    /\ lpc' = "done"
    /\ UNCHANGED <<lfile, lerr>>
    /\ UNCHANGED <<matchVars, transformVars, pixelVars, exportVars, batchVars, decodeVars, nearestVars, pipelineVars>>

loadPaletteImage ==
    /\ lpc = "start" /\ lfile.ext = ".png"
    /\ loaded' = parseImagePalette(lfile.png)
    /\ lpc' = "done"
    /\ UNCHANGED <<lfile, lerr>>
    /\ UNCHANGED <<matchVars, transformVars, pixelVars, exportVars, batchVars, decodeVars, nearestVars, pipelineVars>>

\* throw new Error(`Unsupported palette format: ${ext}`)
loadPaletteUnsupported ==
    /\ lpc = "start" /\ lfile.ext \notin {".gpl", ".pal", ".txt", ".png", ".jpg", ".jpeg"}
    /\ lpc' = "failed"
    /\ lerr' = "Unsupported palette format"
    /\ UNCHANGED <<lfile, loaded>>
    /\ UNCHANGED <<matchVars, transformVars, pixelVars, exportVars, batchVars, decodeVars, nearestVars, pipelineVars>>

NextLoad ==
    \/ loadPaletteGpl
    \/ loadPalettePal
    \/ loadPaletteTxt
    \/ loadPaletteImage
    \/ loadPaletteUnsupported

SpecLoad == InitLoad /\ [][NextLoad]_vars

----------------------------------------------------------------------------
(* Properties of the palette loader *)

\* every colour the file names, in file order, repeats included
SourceColors(file) ==
    CASE file.ext = ".gpl" ->
           LET cl == SelectSeq(file.lines, LAMBDA l : l.kind = "color")
           IN [k \in 1..Len(cl) |-> <<cl[k].r, cl[k].g, cl[k].b>>]
      [] file.ext = ".txt" ->
           LET cl == SelectSeq(file.lines, LAMBDA l : l.kind \in {"hex", "rgb"})
           IN [k \in 1..Len(cl) |->
                 IF cl[k].kind = "rgb" THEN <<cl[k].r, cl[k].g, cl[k].b>>
                 ELSE << cl[k].hex \div 65536, (cl[k].hex \div 256) % 256, cl[k].hex % 256 >>]
      [] file.ext = ".pal" /\ IsRiff(file.bytes) ->
           LET n == (Len(file.bytes) - 24) \div 4
           IN [k \in 1..(IF n < 0 THEN 0 ELSE n) |->
                 << file.bytes[21 + 4 * k], file.bytes[22 + 4 * k], file.bytes[23 + 4 * k] >>]
      [] file.ext = ".pal" /\ ~IsRiff(file.bytes) ->
           [k \in 1..(Len(file.bytes) \div 3) |->
              << file.bytes[3 * k - 2], file.bytes[3 * k - 1], file.bytes[3 * k] >>]
      [] file.ext = ".png" ->
           LET op == SelectSeq(file.png.data, LAMBDA px : px[4] > 0)
           IN [k \in 1..Len(op) |-> <<op[k][1], op[k][2], op[k][3]>>]

\* the first occurrence of every entry, in order
FirstSeen(colors) ==
    LET keep == { k \in 1..Len(colors) : \A j \in 1..(k - 1) : colors[j] # colors[k] }
        nth(i) == CHOOSE k \in keep : Cardinality({ j \in keep : j <= k }) = i
    IN [i \in 1..Cardinality(keep) |-> colors[nth(i)]]

\* C17: the list the loader returns holds no colour twice and its entries
\* are in first-seen source order, for every kind of palette file.
C17_LoadedListIsDeduplicated ==
    lpc = "done" =>
        /\ \A i \in 1..Len(loaded) : \A j \in 1..Len(loaded) :
               i # j => loaded[i] # loaded[j]
        /\ loaded = FirstSeen(SourceColors(lfile))

\* the count a RIFF palette announces
RiffCount(buffer) == buffer[23] + 256 * buffer[24]

RiffTruncated(buffer) ==
    \/ Len(buffer) < 24
    \/ Len(buffer) < 24 + 4 * RiffCount(buffer)

\* C18: loading a RIFF palette shorter than 24 bytes, or shorter than
\* 24 + 4 * count bytes, fails; no returned entry was read past the end.
C18_TruncatedRiffFails ==
    (lpc # "start" /\ lfile.ext = ".pal" /\ IsRiff(lfile.bytes)) =>
        /\ RiffTruncated(lfile.bytes) => lpc = "failed"
        /\ lpc = "done" =>
               \A k \in 1..Len(loaded) : \A ch \in 1..3 : loaded[k][ch] # UndefinedByte

----------------------------------------------------------------------------
(* SpecExport: exportPiskel of piskel-to-png on one container *)

\* frames.length of the sparse array
FramesLength(fr) == IF DOMAIN fr = {} THEN 0 ELSE SetMax(DOMAIN fr) + 1

\* mutant: the sample position is rounded to the nearest source pixel
scalePngRounded(png, scale) ==
    IF scale = 1 THEN png
    ELSE LET nw == png.width * scale
             nh == png.height * scale
         IN [width |-> nw, height |-> nh,
             data |-> [k \in 1..(nw * nh) |->
                         LET x == (k - 1) % nw
                             y == (k - 1) \div nw
                         IN ReadPx(png, png.width * ((2 * y + scale) \div (2 * scale))
                                          + ((2 * x + scale) \div (2 * scale)))]]

scalePng(png, scale) ==
    IF scale = 1 THEN png
    ELSE LET nw == png.width * scale
             nh == png.height * scale
         IN [width |-> nw, height |-> nh,
             data |-> [k \in 1..(nw * nh) |->
                         LET x == (k - 1) % nw
                             y == (k - 1) \div nw
                         IN ReadPx(png, png.width * (y \div scale) + (x \div scale))]]

\* mutant: the frames fill the sheet column by column
createSpritesheetColumnMajor(fr, columns) ==
    LET n == FramesLength(fr)
    IN IF n = 0 THEN Returned(NoFile)
       ELSE IF \E i \in 0..(n - 1) : i \notin DOMAIN fr THEN Thrown("TypeError")
       ELSE LET fw == fr[0].width
                fh == fr[0].height
                cols == IF columns = NoOption \/ columns = <<0>> THEN n ELSE columns[1]
                rows == (n + cols - 1) \div cols
                sw == fw * cols
            IN Returned([width |-> sw, height |-> fh * rows,
                         data |-> [k \in 1..(sw * fh * rows) |->
                                     LET X == (k - 1) % sw
                                         Y == (k - 1) \div sw
                                         i == (X \div fw) * rows + (Y \div fh)
                                     IN IF i < n
                                        THEN ReadPx(fr[i], fw * (Y % fh) + (X % fw))
                                        ELSE ZeroPx]])

\* null for no frames; reading .width or .data of a hole is a TypeError
createSpritesheet(fr, columns) ==
    LET n == FramesLength(fr)
    IN IF n = 0 THEN Returned(NoFile)
       ELSE IF \E i \in 0..(n - 1) : i \notin DOMAIN fr THEN Thrown("TypeError")
       ELSE LET fw == fr[0].width
                fh == fr[0].height
                cols == IF columns = NoOption \/ columns = <<0>> THEN n ELSE columns[1]
                rows == (n + cols - 1) \div cols
                sw == fw * cols
            IN Returned([width |-> sw, height |-> fh * rows,
                         data |-> [k \in 1..(sw * fh * rows) |->
                                     LET X == (k - 1) % sw
                                         Y == (k - 1) \div sw
                                         i == (Y \div fh) * cols + (X \div fw)
                                     IN IF i < n
                                        THEN ReadPx(fr[i], fw * (Y % fh) + (X % fw))
                                        ELSE ZeroPx]])

\* --frame N, --columns N, --scale N (1 when absent); <<>> is null
ExportOptions ==
    { [frame |-> NoOption, columns |-> NoOption, scale |-> 1],
      [frame |-> NoOption, columns |-> <<1>>, scale |-> 2],
      [frame |-> NoOption, columns |-> <<3>>, scale |-> 1],
      [frame |-> NoOption, columns |-> NoOption, scale |-> 2],
      [frame |-> NoOption, columns |-> <<3>>, scale |-> 3],
      [frame |-> <<0>>, columns |-> NoOption, scale |-> 2] }
    \cup { [frame |-> <<k>>, columns |-> NoOption, scale |-> 1] : k \in (-1)..(MaxFrames + 1) }

InitExport ==
    /\ edata \in Containers
    /\ eoptions \in ExportOptions
    /\ eframes = <<>>
    /\ outputPng = NoFile
    /\ ewritten = NoFile
    /\ eerr = "none"
    /\ epc = "read"
    /\ MatchIdle /\ TransformIdle /\ PixelIdle /\ LoadIdle /\ BatchIdle /\ DecodeIdle /\ NearestIdle /\ PipelineIdle

\* readFileSync, JSON.parse, extractFrames
exportRead ==
    /\ epc = "read"
    /\ eframes' = extractFrames(edata)
    /\ epc' = "select"
    /\ UNCHANGED <<edata, eoptions, outputPng, ewritten, eerr>>
    /\ UNCHANGED <<matchVars, transformVars, pixelVars, loadVars, batchVars, decodeVars, nearestVars, pipelineVars>>

\* mutant: the frame option counts from 1
exportSelectFrameOneBased ==
    /\ epc = "select" /\ eoptions.frame # NoOption
    /\ LET k == eoptions.frame[1]
       IN IF k < 1 \/ k > FramesLength(eframes)
          THEN epc' = "failed" /\ eerr' = "Frame out of range" /\ outputPng' = outputPng
          ELSE IF (k - 1) \notin DOMAIN eframes
               THEN epc' = "failed" /\ eerr' = "No frames found" /\ outputPng' = outputPng
               ELSE epc' = "scale" /\ eerr' = eerr /\ outputPng' = eframes[k - 1]
    /\ UNCHANGED <<edata, eoptions, eframes, ewritten>>
    /\ UNCHANGED <<matchVars, transformVars, pixelVars, loadVars, batchVars, decodeVars, nearestVars, pipelineVars>>

\* single frame: the range test, frames[options.frame], the !outputPng test
exportSelectFrame ==
    /\ epc = "select" /\ eoptions.frame # NoOption
    /\ LET k == eoptions.frame[1]
       IN IF k < 0 \/ k >= FramesLength(eframes)
          THEN epc' = "failed" /\ eerr' = "Frame out of range" /\ outputPng' = outputPng
          ELSE IF k \notin DOMAIN eframes
               THEN epc' = "failed" /\ eerr' = "No frames found" /\ outputPng' = outputPng
               ELSE epc' = "scale" /\ eerr' = eerr /\ outputPng' = eframes[k]
    /\ UNCHANGED <<edata, eoptions, eframes, ewritten>>
    /\ UNCHANGED <<matchVars, transformVars, pixelVars, loadVars, batchVars, decodeVars, nearestVars, pipelineVars>>

\* spritesheet: createSpritesheet, the !outputPng test
exportSelectSheet ==
    /\ epc = "select" /\ eoptions.frame = NoOption
    /\ LET res == createSpritesheet(eframes, eoptions.columns)
       IN IF ~res.ok
          THEN epc' = "failed" /\ eerr' = res.error /\ outputPng' = outputPng
          ELSE IF res.value = NoFile
               THEN epc' = "failed" /\ eerr' = "No frames found" /\ outputPng' = outputPng
               ELSE epc' = "scale" /\ eerr' = eerr /\ outputPng' = res.value
    /\ UNCHANGED <<edata, eoptions, eframes, ewritten>>
    /\ UNCHANGED <<matchVars, transformVars, pixelVars, loadVars, batchVars, decodeVars, nearestVars, pipelineVars>>

\* if (options.scale && options.scale !== 1) outputPng = scalePng(...)
exportScale ==
    /\ epc = "scale"
    /\ outputPng' = IF eoptions.scale # 0 /\ eoptions.scale # 1
                    THEN scalePng(outputPng, eoptions.scale) ELSE outputPng
    /\ epc' = "write"
    /\ UNCHANGED <<edata, eoptions, eframes, ewritten, eerr>>
    /\ UNCHANGED <<matchVars, transformVars, pixelVars, loadVars, batchVars, decodeVars, nearestVars, pipelineVars>>

\* PNG.sync.write, writeFileSync
exportWrite ==
    /\ epc = "write"
    /\ ewritten' = outputPng
    /\ epc' = "done"
    /\ UNCHANGED <<edata, eoptions, eframes, outputPng, eerr>>
    /\ UNCHANGED <<matchVars, transformVars, pixelVars, loadVars, batchVars, decodeVars, nearestVars, pipelineVars>>

NextExport ==
    \/ exportRead
    \/ exportSelectFrame
    \/ exportSelectSheet
    \/ exportScale
    \/ exportWrite

SpecExport == InitExport /\ [][NextExport]_vars

----------------------------------------------------------------------------
(* Properties of the export *)

ExportChunks == edata.layers[1].chunks

\* pixel (x, y) of the tile in slot i (from 1) of chunk c of the first layer
SheetPixel(c, i, x, y) ==
    LET png == ExportChunks[c].png
        fpr == png.width \div edata.width
    IN png.data[png.width * (((i - 1) \div fpr) * edata.height + y)
                  + ((i - 1) % fpr) * edata.width + x + 1]

\* png is the tile in slot i of chunk c, every pixel repeated scale times
IsScaledTile(png, c, i, scale) ==
    /\ png.width = edata.width * scale
    /\ png.height = edata.height * scale
    /\ Len(png.data) = png.width * png.height
    /\ \A X \in 0..(png.width - 1) :
           \A Y \in 0..(png.height - 1) :
               png.data[png.width * Y + X + 1] = SheetPixel(c, i, X \div scale, Y \div scale)

\* png shows the frame that the layouts of the first layer call k
IsFrame(png, k, scale) ==
    \E c \in 1..Len(ExportChunks) :
        /\ ExportChunks[c].hasPng
        /\ \E i \in 1..Len(ExportChunks[c].layout) :
               ExportChunks[c].layout[i][1] = k /\ IsScaledTile(png, c, i, scale)

\* C15: exporting frame k writes frame k when 0 <= k < frameCount; any other
\* k fails with the out-of-range error and no image is selected or written.
C15_SingleFrameInRange ==
    eoptions.frame # NoOption =>
        LET k == eoptions.frame[1]
        IN IF k \in 0..(edata.layers[1].frameCount - 1)
           THEN /\ epc # "failed"
                /\ epc = "done" => IsFrame(ewritten, k, eoptions.scale)
           ELSE /\ outputPng = NoFile
                /\ ewritten = NoFile
                /\ epc \notin {"read", "select"} =>
                       epc = "failed" /\ eerr = "Frame out of range"

C15_Witness ==
    /\ epc = "done"
    /\ eoptions.frame = <<1>>
    /\ Len(ExportChunks) = 2
    /\ ExportChunks[1].hasPng /\ ExportChunks[1].layout[1] = <<1>>
    /\ ExportChunks[2].hasPng

\* the container without its chunks that have no image payload
Stripped(d) ==
    [d EXCEPT !.layers =
        [l \in 1..Len(d.layers) |->
            [d.layers[l] EXCEPT !.chunks = SelectSeq(d.layers[l].chunks,
                                                     LAMBDA chunk : chunk.hasPng)]]]

\* C20: a chunk without image payload contributes no frame and no failure:
\* the decoded frames are those the chunks with payload name, each with its
\* tile, exactly as for the container without that chunk, and an export
\* fails only for a frame selector out of range or for want of any frame.
C20_ChunkWithoutPayloadIsSkipped ==
    epc # "read" =>
        /\ DOMAIN eframes =
             { k \in 0..(edata.layers[1].frameCount - 1) :
                 \E c \in 1..Len(ExportChunks) :
                     /\ ExportChunks[c].hasPng
                     /\ \E i \in 1..Len(ExportChunks[c].layout) :
                            ExportChunks[c].layout[i][1] = k }
        /\ \A k \in DOMAIN eframes : IsFrame(eframes[k], k, 1)
        /\ eframes = extractFrames(Stripped(edata))
        /\ epc = "failed" =>
               \/ eerr = "Frame out of range"
               \/ eerr = "No frames found" /\ DOMAIN eframes = {}

C20_Witness ==
    /\ epc = "done"
    /\ eoptions.frame = NoOption
    /\ Len(ExportChunks) = 2
    /\ ~ExportChunks[1].hasPng
    /\ ExportChunks[2].hasPng
    /\ FramesLength(eframes) = 2

\* the frames are 0..n-1 without a hole, n >= 1
FramesComplete ==
    /\ DOMAIN eframes # {}
    /\ DOMAIN eframes = 0..(FramesLength(eframes) - 1)

\* the column count of the sheet: --columns, or frames.length
SheetColumns ==
    IF eoptions.columns = NoOption THEN FramesLength(eframes) ELSE eoptions.columns[1]

\* C21: the sheet assembled from n >= 1 frames with column count c is
\* (frameWidth * c) x (frameHeight * ceil(n / c)); frame i fills the tile at
\* column i mod c, row i div c, and every slot past frame n-1 is transparent.
C21_SpritesheetLayout ==
    (epc = "scale" /\ eoptions.frame = NoOption /\ FramesComplete) =>
        LET n == FramesLength(eframes)
            c == SheetColumns
            rows == CHOOSE r \in 1..n : r * c >= n /\ (r - 1) * c < n
            fw == edata.width
            fh == edata.height
        IN /\ outputPng.width = fw * c
           /\ outputPng.height = fh * rows
           /\ Len(outputPng.data) = fw * c * fh * rows
           /\ \A i \in 0..(c * rows - 1) :
                  \A x \in 0..(fw - 1) :
                      \A y \in 0..(fh - 1) :
                          outputPng.data[fw * c * ((i \div c) * fh + y) + (i % c) * fw + x + 1]
                            = IF i < n THEN eframes[i].data[fw * y + x + 1] ELSE ZeroPx

C21_Witness ==
    /\ epc = "scale"
    /\ eoptions.frame = NoOption
    /\ eoptions.columns = <<3>>
    /\ FramesComplete
    /\ FramesLength(eframes) = 4
    /\ outputPng.height = 2 * edata.height
    /\ \E k \in 1..Len(eframes[3].data) : eframes[3].data[k][4] > 0

\* every decoded frame resized to scale times its size by the transform's
\* resizePng
ResizedFrames ==
    [k \in DOMAIN eframes |->
        resizePng(eframes[k], eoptions.scale * eframes[k].width,
                  eoptions.scale * eframes[k].height)]

\* C22: the image exported with integer scale s >= 1 is what extracting or
\* assembling gives when every frame is first resized to s times its size
\* with the nearest-neighbour resize, and it is the resize of the unscaled
\* frame or sheet to s times its size.
C22_ScaleIsResize ==
    (epc \in {"write", "done"} /\ eoptions.scale >= 1) =>
        IF eoptions.frame # NoOption
        THEN outputPng = ResizedFrames[eoptions.frame[1]]
        ELSE LET sheet == createSpritesheet(eframes, eoptions.columns).value
             IN /\ outputPng = createSpritesheet(ResizedFrames, eoptions.columns).value
                /\ outputPng = resizePng(sheet, eoptions.scale * sheet.width,
                                         eoptions.scale * sheet.height)

C22_Witness ==
    /\ epc = "done"
    /\ eoptions.frame = NoOption
    /\ eoptions.columns = <<3>>
    /\ eoptions.scale = 3
    /\ FramesLength(eframes) = 4
    /\ ewritten.width = 9 * edata.width
    /\ \E k \in 1..Len(ewritten.data) : ewritten.data[k][4] > 0

----------------------------------------------------------------------------
(* SpecBatch: main of piskel-transform, palette-match, png-to-piskel,      *)
(* sprite-pipeline and piskel-to-png: the argument checks and the file     *)
(* loop.  A file of args.files is "missing", "broken" (it exists, reading  *)
(* or parsing it throws), "other" (it exists, its extension is not .png),  *)
(* "unreadable" (it exists, opening or reading it fails: a directory, a    *)
(* file without read permission) or "good".  The tools that read with      *)
(* readFileSync get the failure of an unreadable file as an exception, as  *)
(* for a broken one; png-to-piskel reads through a stream.                 *)

MaxFiles == 2

\* what --palette names: nothing, a palette that loads, a file that cannot
\* be read, a file whose extension loadPalette rejects
PaletteArgs == { "none", "ok", "unreadable", "unsupported" }

\* what --resize / --size holds: nothing, WxH, or a text that is not WxH
SizeArgs == { "none", "ok", "malformed" }

Args(help, pal, crop, resize, scale, size) ==
    [help |-> help, palette |-> pal, crop |-> crop, resize |-> resize,
     scale |-> scale, size |-> size]

ArgsOf(t) ==
    CASE t = "transform" ->
           { Args(help, "none", crop, resize, scale, "none") :
               help \in BOOLEAN, crop \in BOOLEAN, resize \in SizeArgs,
               scale \in {"none", "ok"} }
      [] t \in {"match", "import"} ->
           { Args(help, pal, FALSE, "none", "none", "none") :
               help \in BOOLEAN, pal \in PaletteArgs }
      [] t = "pipeline" ->
           { Args(help, pal, crop, "none", "none", size) :
               help \in BOOLEAN, pal \in PaletteArgs, crop \in BOOLEAN, size \in SizeArgs }
      [] t = "export" ->
           { Args(help, "none", FALSE, "none", "none", "none") : help \in BOOLEAN }

FilesOf(t) ==
    SeqsUpTo(IF t = "import" THEN {"missing", "broken", "other", "unreadable", "good"}
             ELSE {"missing", "broken", "good"}, MaxFiles)

InitBatch ==
    /\ btool \in {"transform", "match", "import", "pipeline", "export"}
    /\ args \in ArgsOf(btool)
    /\ files \in FilesOf(btool)
    /\ fi = 0
    /\ processed = 0
    /\ failed = 0
    /\ log = <<>>
    /\ reads = {}
    /\ writes = {}
    /\ bpc = "start"
    /\ MatchIdle /\ TransformIdle /\ PixelIdle /\ LoadIdle /\ ExportIdle /\ DecodeIdle /\ NearestIdle /\ PipelineIdle

\* if (args.help || args.files.length === 0) { printUsage(); process.exit() }
Usage == args.help \/ Len(files) = 0

\* piskel-transform: usage, then at least one transform option
mainStartTransform ==
    /\ bpc = "start" /\ btool = "transform"
    /\ bpc' = IF Usage THEN "exit"
              ELSE IF args.resize = "none" /\ args.scale = "none" /\ ~args.crop THEN "exit"
              ELSE "loop"
    /\ fi' = 1
    /\ UNCHANGED <<btool, args, files, processed, failed, log, reads, writes>>
    /\ UNCHANGED <<matchVars, transformVars, pixelVars, loadVars, exportVars, decodeVars, nearestVars, pipelineVars>>

\* palette-match: usage (also without --palette), then loadPalette in a
\* try whose catch exits
mainStartMatch ==
    /\ bpc = "start" /\ btool = "match"
    /\ bpc' = IF Usage \/ args.palette = "none" THEN "exit"
              ELSE IF args.palette # "ok" THEN "exit"
              ELSE "loop"
    /\ fi' = 1
    /\ UNCHANGED <<btool, args, files, processed, failed, log, reads, writes>>
    /\ UNCHANGED <<matchVars, transformVars, pixelVars, loadVars, exportVars, decodeVars, nearestVars, pipelineVars>>

\* png-to-piskel: usage, then loadPalette, if a palette is named, in a try
\* whose catch exits
mainStartImport ==
    /\ bpc = "start" /\ btool = "import"
    /\ bpc' = IF Usage THEN "exit"
              ELSE IF args.palette \notin {"none", "ok"} THEN "exit"
              ELSE "loop"
    /\ fi' = 1
    /\ UNCHANGED <<btool, args, files, processed, failed, log, reads, writes>>
    /\ UNCHANGED <<matchVars, transformVars, pixelVars, loadVars, exportVars, decodeVars, nearestVars, pipelineVars>>

\* sprite-pipeline: usage, then loadPalette, if a palette is named, outside
\* any try: its exception ends the process
mainStartPipeline ==
    /\ bpc = "start" /\ btool = "pipeline"
    /\ bpc' = IF Usage THEN "exit"
              ELSE IF args.palette \notin {"none", "ok"} THEN "exit"
              ELSE "loop"
    /\ fi' = 1
    /\ UNCHANGED <<btool, args, files, processed, failed, log, reads, writes>>
    /\ UNCHANGED <<matchVars, transformVars, pixelVars, loadVars, exportVars, decodeVars, nearestVars, pipelineVars>>

\* piskel-to-png: usage only
mainStartExport ==
    /\ bpc = "start" /\ btool = "export"
    /\ bpc' = IF Usage THEN "exit" ELSE "loop"
    /\ fi' = 1
    /\ UNCHANGED <<btool, args, files, processed, failed, log, reads, writes>>
    /\ UNCHANGED <<matchVars, transformVars, pixelVars, loadVars, exportVars, decodeVars, nearestVars, pipelineVars>>

InLoop == bpc = "loop" /\ fi <= Len(files)

\* if (!fs.existsSync(inputFile)) { failed++; continue; }
mainFileNotFound ==
    /\ InLoop /\ files[fi] = "missing"
    /\ failed' = failed + 1
    /\ log' = Append(log, <<fi, "not found">>)
    /\ fi' = fi + 1
    /\ UNCHANGED <<btool, args, files, processed, reads, writes, bpc>>
    /\ UNCHANGED <<matchVars, transformVars, pixelVars, loadVars, exportVars, decodeVars, nearestVars, pipelineVars>>

\* png-to-piskel: if (ext !== '.png') { failed++; continue; }
mainFileSkipped ==
    /\ InLoop /\ btool = "import" /\ files[fi] = "other"
    /\ failed' = failed + 1
    /\ log' = Append(log, <<fi, "skipped">>)
    /\ fi' = fi + 1
    /\ UNCHANGED <<btool, args, files, processed, reads, writes, bpc>>
    /\ UNCHANGED <<matchVars, transformVars, pixelVars, loadVars, exportVars, decodeVars, nearestVars, pipelineVars>>

\* the size the tool splits at 'x' inside the per-file function
MalformedSize ==
    \/ btool = "transform" /\ args.resize = "malformed"
    \/ btool = "pipeline" /\ args.size = "malformed"

\* the try block completes: the file was read and its output written.
\* With a malformed size the images are created with NaN dimensions and
\* the PNG library decides whether the call throws.
mainFileProcessed ==
    /\ InLoop /\ files[fi] = "good"
    /\ reads' = reads \cup {fi}
    /\ writes' = writes \cup {fi}
    /\ processed' = processed + 1
    /\ log' = Append(log, <<fi, "processed">>)
    /\ fi' = fi + 1
    /\ UNCHANGED <<btool, args, files, failed, bpc>>
    /\ UNCHANGED <<matchVars, transformVars, pixelVars, loadVars, exportVars, decodeVars, nearestVars, pipelineVars>>

\* the per-file function throws after opening the file: catch, failed++
mainFileFailed ==
    /\ InLoop
    /\ files[fi] = "broken" \/ (files[fi] = "good" /\ MalformedSize)
    /\ reads' = reads \cup {fi}
    /\ failed' = failed + 1
    /\ log' = Append(log, <<fi, "failed">>)
    /\ fi' = fi + 1
    /\ UNCHANGED <<btool, args, files, processed, writes, bpc>>
    /\ UNCHANGED <<matchVars, transformVars, pixelVars, loadVars, exportVars, decodeVars, nearestVars, pipelineVars>>

\* png-to-piskel, loadPng: fs.createReadStream(filePath).pipe(new PNG())
\* with .on('error', reject) on the PNG stream only.  The 'error' event of
\* the read stream has no listener: the event loop throws it outside the
\* try of main and the process ends without the final report.
mainFileStreamError ==
    /\ InLoop /\ btool = "import" /\ files[fi] = "unreadable"
    /\ reads' = reads \cup {fi}
    /\ bpc' = "crashed"
    /\ UNCHANGED <<btool, args, files, fi, processed, failed, log, writes>>
    /\ UNCHANGED <<matchVars, transformVars, pixelVars, loadVars, exportVars, decodeVars, nearestVars, pipelineVars>>

\* the loop is over: console.log of the two counters
mainDone ==
    /\ bpc = "loop" /\ fi > Len(files)
    /\ bpc' = "done"
    /\ UNCHANGED <<btool, args, files, fi, processed, failed, log, reads, writes>>
    /\ UNCHANGED <<matchVars, transformVars, pixelVars, loadVars, exportVars, decodeVars, nearestVars, pipelineVars>>

NextBatch ==
    \/ mainStartTransform
    \/ mainStartMatch
    \/ mainStartImport
    \/ mainStartPipeline
    \/ mainStartExport
    \/ mainFileNotFound
    \/ mainFileSkipped
    \/ mainFileProcessed
    \/ mainFileFailed
    \/ mainFileStreamError
    \/ mainDone

SpecBatch == InitBatch /\ [][NextBatch]_vars

----------------------------------------------------------------------------
(* Properties of the batch loop *)

\* C16: the loop visits the files in order, each once; a failure does not
\* keep the later files from being attempted; when the run that entered the
\* loop has ended, every file was attempted and processed + failed is the
\* number of input files.
C16_BatchCountsEveryFile ==
    bpc \in {"loop", "done", "crashed"} =>
        /\ Len(log) = fi - 1
        /\ \A k \in 1..Len(log) : log[k][1] = k
        /\ \A k \in 1..Len(log) : (log[k][2] = "processed") = (files[k] = "good" /\ k \in writes)
        /\ processed = Cardinality({ k \in 1..Len(log) : log[k][2] = "processed" })
        /\ failed = Cardinality({ k \in 1..Len(log) : log[k][2] # "processed" })
        /\ bpc \in {"done", "crashed"} => (Len(log) = Len(files) /\ processed + failed = Len(files))

\* the command line has an argument or configuration error
ArgumentError ==
    \/ args.palette \in {"unreadable", "unsupported"}
    \/ btool = "transform" /\ args.resize = "none" /\ args.scale = "none" /\ ~args.crop
    \/ args.resize = "malformed"
    \/ args.size = "malformed"

\* C19: in a run with an argument or configuration error no input file is
\* read and no output is written.
C19_ArgumentErrorAbortsFirst ==
    ArgumentError => (reads = {} /\ writes = {} /\ processed = 0)

----------------------------------------------------------------------------
(* SpecDecode: where the three decoders of a chunk read layout slot i.     *)
(* The chunk is given by the size of its sheet, the frame size the         *)
(* container declares and the length of its layout; each decoder records   *)
(* the sheet pixel (the byte index >> 2) it reads for pixel (x, y) of the  *)
(* frame in slot i.                                                        *)

\* <<slot, x, y>> of every frame pixel the decoders visit
DecodeKeys == (0..(dslots - 1)) \X (0..(dframe[1] - 1)) \X (0..(dframe[2] - 1))

\* piskel-to-png extractFrames: srcIdx >> 2
extractFramesSrcIdx(png, fw, fh, i, x, y) ==
    LET framesPerRow == framesPerRowOr1(png, fw)
        srcX == (i % framesPerRow) * fw
        srcY == (i \div framesPerRow) * fh
    IN png.width * (srcY + y) + (srcX + x)

\* transformPiskel, first pass: idx >> 2.  framesPerRow has no "|| 1": for
\* 0, i % framesPerRow is NaN, frameX and with it the whole sum is NaN, and
\* NaN << 2 is 0.
cropPassIdx(png, fw, fh, i, x, y) ==
    LET framesPerRow == png.width \div fw
    IN IF framesPerRow = 0 THEN 0
       ELSE LET frameX == (i % framesPerRow) * fw
                frameY == (i \div framesPerRow) * fh
            IN png.width * (frameY + y) + (frameX + x)

\* transformPiskel, per-frame pass: srcIdx >> 2
framePassSrcIdx(png, fw, fh, f, x, y) ==
    LET framesPerRow == framesPerRowOr1(png, fw)
        srcFrameX == (f % framesPerRow) * fw
        srcFrameY == (f \div framesPerRow) * fh
    IN png.width * (srcFrameY + y) + (srcFrameX + x)

InitDecode ==
    /\ dsheet \in { [width |-> w, height |-> h] :
                       w \in 1..(MaxSide * MaxFrames), h \in 1..MaxSide }
    /\ dframe \in (1..MaxSide) \X (1..MaxSide)
    /\ dslots \in 1..MaxFrames
    /\ dreads = <<>>
    /\ MatchIdle /\ TransformIdle /\ PixelIdle /\ LoadIdle /\ ExportIdle /\ BatchIdle /\ NearestIdle /\ PipelineIdle

Recorded(decoder, idx) ==
    [d \in (DOMAIN dreads) \cup {decoder} |-> IF d = decoder THEN idx ELSE dreads[d]]

decodeExtractFrames ==
    /\ "export" \notin DOMAIN dreads
    /\ dreads' = Recorded("export",
                          [k \in DecodeKeys |->
                              extractFramesSrcIdx(dsheet, dframe[1], dframe[2], k[1], k[2], k[3])])
    /\ UNCHANGED <<dsheet, dframe, dslots>>
    /\ UNCHANGED <<matchVars, transformVars, pixelVars, loadVars, exportVars, batchVars, nearestVars, pipelineVars>>

decodeCropPass ==
    /\ "crop" \notin DOMAIN dreads
    /\ dreads' = Recorded("crop",
                          [k \in DecodeKeys |->
                              cropPassIdx(dsheet, dframe[1], dframe[2], k[1], k[2], k[3])])
    /\ UNCHANGED <<dsheet, dframe, dslots>>
    /\ UNCHANGED <<matchVars, transformVars, pixelVars, loadVars, exportVars, batchVars, nearestVars, pipelineVars>>

decodeFramePass ==
    /\ "frame" \notin DOMAIN dreads
    /\ dreads' = Recorded("frame",
                          [k \in DecodeKeys |->
                              framePassSrcIdx(dsheet, dframe[1], dframe[2], k[1], k[2], k[3])])
    /\ UNCHANGED <<dsheet, dframe, dslots>>
    /\ UNCHANGED <<matchVars, transformVars, pixelVars, loadVars, exportVars, batchVars, nearestVars, pipelineVars>>

NextDecode ==
    \/ decodeExtractFrames
    \/ decodeCropPass
    \/ decodeFramePass

SpecDecode == InitDecode /\ [][NextDecode]_vars

----------------------------------------------------------------------------
(* Properties of the decoders *)

\* max(1, floor(sheetWidth / frameWidth))
TilesPerRow == IF dsheet.width \div dframe[1] < 1 THEN 1 ELSE dsheet.width \div dframe[1]

\* the sheet pixel at (x, y) of the tile of slot i
TilePixel(i, x, y) ==
    dsheet.width * ((i \div TilesPerRow) * dframe[2] + y) + (i % TilesPerRow) * dframe[1] + x

\* C24: every decoder reads pixel (x, y) of layout slot i from the tile
\* whose top-left pixel is ((i mod tilesPerRow) * frameWidth,
\* (i div tilesPerRow) * frameHeight), tilesPerRow = max(1, floor(sheetWidth
\* / frameWidth)); so the exporter and the two passes of the transform
\* agree, also for a sheet narrower than a frame.
C24_DecodersAgree ==
    \A d \in DOMAIN dreads :
        \A k \in DecodeKeys : dreads[d][k] = TilePixel(k[1], k[2], k[3])

----------------------------------------------------------------------------
(* SpecNearest: the nearest-colour searches of palette-match, png-to-piskel *)
(* and of the two versions of PaletteMatchingService, each applied to one   *)
(* colour and one palette of byte colours.                                  *)

\* hexToRgb_: parseInt(hex, 16), then the three bytes
hexToRgb_(hex) == << Shr(hex, 16) % 256, Shr(hex, 8) % 256, hex % 256 >>

\* colorDistance_: Math.sqrt((2 + rMean / 256) * dr * dr + 4 * dg * dg +
\* (2 + (255 - rMean) / 256) * db * db) with rMean = (c1[0] + c2[0]) / 2.
\* Kept as 512 times the argument of the square root: every term is a
\* multiple of 1/512 that a double holds exactly, and the square root keeps
\* the order and the equality of such arguments.
colorDistance_(c1, c2) ==
    LET rSum == c1[1] + c2[1]
        dr == c1[1] - c2[1]
        dg == c1[2] - c2[2]
        db == c1[3] - c2[3]
    IN (1024 + rSum) * dr * dr + 2048 * dg * dg + (1534 - rSum) * db * db

\* the loop of findNearestColor_: strict <, no early exit
RECURSIVE findNearestColorLoop_(_, _, _, _, _)
findNearestColorLoop_(rgb, paletteRgb, i, minDistance, nearest) ==
    IF i > Len(paletteRgb) THEN nearest
    ELSE LET distance == colorDistance_(rgb, paletteRgb[i])
         IN IF minDistance = Infinity \/ distance < minDistance
            THEN findNearestColorLoop_(rgb, paletteRgb, i + 1, distance, paletteRgb[i])
            ELSE findNearestColorLoop_(rgb, paletteRgb, i + 1, minDistance, nearest)

findNearestColor_(rgb, paletteRgb) ==
    findNearestColorLoop_(rgb, paletteRgb, 1, Infinity, paletteRgb[1])

\* the colours whose nearest palette entry is looked for
ProbeColors == { << px[1], px[2], px[3] >> : px \in Pixels }

InitNearest ==
    /\ ncolor \in ProbeColors
    /\ npal \in NonEmptySeqsUpTo(ByteColors, MaxPaletteLen)
    /\ nchosen = <<>>
    /\ MatchIdle /\ TransformIdle /\ PixelIdle /\ LoadIdle /\ ExportIdle /\ BatchIdle
    /\ DecodeIdle /\ PipelineIdle

Chosen(search, color) ==
    [d \in (DOMAIN nchosen) \cup {search} |-> IF d = search THEN color ELSE nchosen[d]]

\* the palette as palette.getColors() of the editor holds it
HexPalette == [k \in 1..Len(npal) |-> HexOf(npal[k])]

\* palette-match: findNearestColor
nearestPaletteMatch ==
    /\ "match" \notin DOMAIN nchosen
    /\ nchosen' = Chosen("match", findNearestColor(ncolor[1], ncolor[2], ncolor[3], npal))
    /\ UNCHANGED <<ncolor, npal>>
    /\ UNCHANGED <<matchVars, transformVars, pixelVars, loadVars, exportVars, batchVars, decodeVars, pipelineVars>>

\* png-to-piskel: findNearestColor
nearestImport ==
    /\ "import" \notin DOMAIN nchosen
    /\ nchosen' = Chosen("import",
                         findNearestColorImport(ncolor[1], ncolor[2], ncolor[3], npal))
    /\ UNCHANGED <<ncolor, npal>>
    /\ UNCHANGED <<matchVars, transformVars, pixelVars, loadVars, exportVars, batchVars, decodeVars, pipelineVars>>

\* PaletteMatchingService with the integer-shift distance: the inline scan
\* of matchFrameToPalette_ over buildPaletteData_(colors)
nearestServiceShift ==
    /\ "shift" \notin DOMAIN nchosen
    /\ nchosen' = Chosen("shift", matchFrameNearest(ncolor[1], ncolor[2], ncolor[3],
                                                     buildPaletteData_(HexPalette)))
    /\ UNCHANGED <<ncolor, npal>>
    /\ UNCHANGED <<matchVars, transformVars, pixelVars, loadVars, exportVars, batchVars, decodeVars, pipelineVars>>

\* PaletteMatchingService with the square-root distance: findNearestColor_
\* over colors.map(hexToRgb_)
nearestServiceRedmean ==
    /\ "redmean" \notin DOMAIN nchosen
    /\ nchosen' = Chosen("redmean",
                         findNearestColor_(ncolor, [k \in 1..Len(npal) |->
                                                      hexToRgb_(HexPalette[k])]))
    /\ UNCHANGED <<ncolor, npal>>
    /\ UNCHANGED <<matchVars, transformVars, pixelVars, loadVars, exportVars, batchVars, decodeVars, pipelineVars>>

NextNearest ==
    \/ nearestPaletteMatch
    \/ nearestImport
    \/ nearestServiceShift
    \/ nearestServiceRedmean

SpecNearest == InitNearest /\ [][NextNearest]_vars

----------------------------------------------------------------------------
(* Properties of the nearest-colour searches *)

\* C27: for every colour and every non-empty palette the searches of the
\* command line matchers and of both versions of PaletteMatchingService
\* select the same palette colour.
C27_SearchesSelectSameColour ==
    \A d \in DOMAIN nchosen : \A e \in DOMAIN nchosen : nchosen[d] = nchosen[e]

----------------------------------------------------------------------------
(* SpecPipeline: processPng of sprite-pipeline: palette, crop, resize,     *)
(* write, in that order.                                                   *)

\* applyPalette: the pixel loop from pixel i on, with its cache
RECURSIVE applyPaletteFrom(_, _, _, _)
applyPaletteFrom(pixels, pal, i, c) ==
    IF i > Len(pixels) THEN Returned(pixels)
    ELSE LET st == applyPalettePixel(pixels[i], pal, c)
         IN IF st.threw THEN Thrown("TypeError")
            ELSE applyPaletteFrom([pixels EXCEPT ![i] = st.px], pal, i + 1, st.cache)

\* applyPalette(png, palette): const cache = new Map(), then the loop
applyPalette(png, pal) ==
    LET res == applyPaletteFrom(png.data, pal, 1, EmptyCache)
    IN IF res.ok THEN Returned([png EXCEPT !.data = res.value]) ELSE res

\* a decoded PNG: colour by position, alpha > 0 where the kind has content
PipelineImage(w, h, kind) ==
    [width |-> w, height |-> h,
     data |-> [k \in 1..(w * h) |->
                 LET x == (k - 1) % w
                     y == (k - 1) \div w
                 IN << IF x % 2 = 0 THEN 200 ELSE 0, 10 * y, IF y % 2 = 1 THEN 255 ELSE 0,
                       IF InContent(kind, x, y, w, h) THEN 255 - 127 * x ELSE 0 >>]]

PipelineImages ==
    { PipelineImage(w, h, kind) :
        w \in 1..MaxSide, h \in 1..MaxSide, kind \in {"none", "full", "dot", "botright"} }

\* what loadPalette returned; the .gpl and .txt parsers accept 300
PipelinePalettes ==
    { <<>>, << <<0, 0, 255>> >>, << <<255, 0, 0>>, <<0, 255, 0>> >>,
      << <<0, 0, 0>>, <<300, 0, 0>> >> }

\* palette is <<colours>> or null, size is <<w, h>> or null
PipelineOptions ==
    { [palette |-> pal, crop |-> crop, size |-> size] :
        pal \in {NoOption} \cup { <<c>> : c \in PipelinePalettes },
        crop \in BOOLEAN,
        size \in {NoOption} \cup ((1..MaxTarget) \X (1..MaxTarget)) }

InitPipeline ==
    /\ simage \in PipelineImages
    /\ soptions \in PipelineOptions
    /\ spng = NoFile
    /\ swritten = NoFile
    /\ spc = "read"
    /\ MatchIdle /\ TransformIdle /\ PixelIdle /\ LoadIdle /\ ExportIdle /\ BatchIdle
    /\ DecodeIdle /\ NearestIdle

\* readFileSync, PNG.sync.read
processPngRead ==
    /\ spc = "read"
    /\ spng' = simage
    /\ spc' = "palette"
    /\ UNCHANGED <<simage, soptions, swritten>>
    /\ UNCHANGED <<matchVars, transformVars, pixelVars, loadVars, exportVars, batchVars, decodeVars, nearestVars>>

\* if (options.palette) applyPalette(png, options.palette): an array, also
\* an empty one, is truthy
processPngPalette ==
    /\ spc = "palette"
    /\ IF soptions.palette = NoOption
       THEN spng' = spng /\ spc' = "crop"
       ELSE LET res == applyPalette(spng, soptions.palette[1])
            IN IF res.ok THEN spng' = res.value /\ spc' = "crop"
               ELSE spng' = spng /\ spc' = "failed"
    /\ UNCHANGED <<simage, soptions, swritten>>
    /\ UNCHANGED <<matchVars, transformVars, pixelVars, loadVars, exportVars, batchVars, decodeVars, nearestVars>>

\* if (options.crop) png = cropPng(png, findContentBounds(png))
processPngCrop ==
    /\ spc = "crop"
    /\ spng' = IF soptions.crop THEN cropPngPipeline(spng, findContentBoundsPipeline(spng))
               ELSE spng
    /\ spc' = "resize"
    /\ UNCHANGED <<simage, soptions, swritten>>
    /\ UNCHANGED <<matchVars, transformVars, pixelVars, loadVars, exportVars, batchVars, decodeVars, nearestVars>>

\* if (options.size) png = resizePng(png, w, h)
processPngResize ==
    /\ spc = "resize"
    /\ spng' = IF soptions.size # NoOption
               THEN resizePngPipeline(spng, soptions.size[1], soptions.size[2])
               ELSE spng
    /\ spc' = "write"
    /\ UNCHANGED <<simage, soptions, swritten>>
    /\ UNCHANGED <<matchVars, transformVars, pixelVars, loadVars, exportVars, batchVars, decodeVars, nearestVars>>

\* createPiskel, writeFileSync
processPngWrite ==
    /\ spc = "write"
    /\ swritten' = spng
    /\ spc' = "done"
    /\ UNCHANGED <<simage, soptions, spng>>
    /\ UNCHANGED <<matchVars, transformVars, pixelVars, loadVars, exportVars, batchVars, decodeVars, nearestVars>>

NextPipeline ==
    \/ processPngRead
    \/ processPngPalette
    \/ processPngCrop
    \/ processPngResize
    \/ processPngWrite

SpecPipeline == InitPipeline /\ [][NextPipeline]_vars

----------------------------------------------------------------------------
(* Properties of the pipeline *)

\* the geometric steps of the run, applied to png
Geometry(png) ==
    LET cropped == IF soptions.crop
                   THEN cropPngPipeline(png, findContentBoundsPipeline(png)) ELSE png
    IN IF soptions.size # NoOption
       THEN resizePngPipeline(cropped, soptions.size[1], soptions.size[2]) ELSE cropped

\* the run matches against a palette that has a colour
MatchesPalette == soptions.palette # NoOption /\ Len(soptions.palette[1]) > 0

\* the written image is what matching after the geometric steps gives
MatchCommutes ==
    (spc = "done" /\ MatchesPalette) =>
        swritten = applyPalette(Geometry(simage), soptions.palette[1]).value

\* C28: with a non-empty palette and a valid size, matching before the
\* crop and resize gives the same bytes as matching after them, and every
\* pixel of the written image with alpha > 0 has the colour of a palette
\* entry.
C28_MatchCommutesWithGeometry ==
    (spc = "done" /\ MatchesPalette) =>
        /\ MatchCommutes
        /\ \A k \in 1..Len(swritten.data) :
               swritten.data[k][4] > 0 =>
                   \E c \in 1..Len(soptions.palette[1]) :
                       << swritten.data[k][1], swritten.data[k][2], swritten.data[k][3] >>
                         = soptions.palette[1][c]

====
